---- MODULE Spec2Model ----
(***************************************************************************)
(* Receipt data extraction pipeline of the expense tracker.                *)
(*                                                                         *)
(* Two programs run the pipeline: the Electron main process                *)
(* (processReceiptFile / processReceipt, with the Ollama collaborator) and *)
(* the Express server (POST /api/receipts + processReceipt).  Each has its *)
(* own SQLite database; the variable mode says which program is running.   *)
(*                                                                         *)
(* JavaScript is single threaded: the code between two awaits runs         *)
(* atomically, so every action below is one such segment of a handler.     *)
(*                                                                         *)
(* Representation of values                                                *)
(*   strings   sequences of one-character strings                          *)
(*   amounts   integers in thousandths of a dollar (5.75 is 5750), so that *)
(*             values below one cent exist; Math.round is computed on them *)
(*   JS values records [t, s, v]: null/undefined, string, number, NaN      *)
(*   confidence  integers in tenths (0.5 is 5)                             *)
(***************************************************************************)
EXTENDS Integers, Sequences, FiniteSets, TLC

(***************************************************************************)
(* JavaScript values                                                       *)
(***************************************************************************)
JNull == [t |-> "null", s |-> <<>>, v |-> 0]
JNaN == [t |-> "nan", s |-> <<>>, v |-> 0]
JStr(x) == [t |-> "str", s |-> x, v |-> 0]
JNum(n) == [t |-> "num", s |-> <<>>, v |-> n]

\* JavaScript truthiness: null, undefined, "", 0 and NaN are falsy.
Truthy(x) ==
  CASE x.t = "null" -> FALSE
    [] x.t = "nan" -> FALSE
    [] x.t = "str" -> x.s # <<>>
    [] x.t = "num" -> x.v # 0

(***************************************************************************)
(* Strings                                                                 *)
(***************************************************************************)
UpperChars ==
  << "A", "B", "C", "D", "E", "F", "G", "H", "I", "J", "K", "L", "M",
     "N", "O", "P", "Q", "R", "S", "T", "U", "V", "W", "X", "Y", "Z" >>

LowerChars ==
  << "a", "b", "c", "d", "e", "f", "g", "h", "i", "j", "k", "l", "m",
     "n", "o", "p", "q", "r", "s", "t", "u", "v", "w", "x", "y", "z" >>

DigitChars == << "0", "1", "2", "3", "4", "5", "6", "7", "8", "9" >>

IsDigit(c) == \E i \in 1..10 : DigitChars[i] = c

DigitVal(c) == (CHOOSE i \in 1..10 : DigitChars[i] = c) - 1

IsSpace(c) == c \in {" ", "\t", "\n"}

LowerChar(c) ==
  IF \E i \in 1..26 : UpperChars[i] = c
    THEN LowerChars[CHOOSE i \in 1..26 : UpperChars[i] = c]
    ELSE c

\* String.prototype.toLowerCase
ToLower(str) == [i \in 1..Len(str) |-> LowerChar(str[i])]

\* String.prototype.trim
Trim(str) ==
  LET idx == {i \in 1..Len(str) : ~IsSpace(str[i])}
  IN IF idx = {} THEN <<>>
     ELSE LET lo == CHOOSE i \in idx : \A k \in idx : i <= k
              hi == CHOOSE i \in idx : \A k \in idx : i >= k
          IN SubSeq(str, lo, hi)

AllDigits(str) == \A i \in 1..Len(str) : IsDigit(str[i])

\* The value of a string of decimal digits (parseInt on digits).
RECURSIVE DigitsVal(_)
DigitsVal(str) ==
  IF str = <<>> THEN 0
  ELSE 10 * DigitsVal(SubSeq(str, 1, Len(str) - 1)) + DigitVal(str[Len(str)])

\* String.prototype.includes
Includes(str, sub) ==
  \E i \in 1..(Len(str) - Len(sub) + 1) : SubSeq(str, i, i + Len(sub) - 1) = sub

EndsWith(str, sub) ==
  /\ Len(str) >= Len(sub)
  /\ SubSeq(str, Len(str) - Len(sub) + 1, Len(str)) = sub

\* String(n).padStart(2, '0') and the four-digit year of toISOString
Pad2(n) ==
  IF n < 10 THEN << "0", DigitChars[n + 1] >>
  ELSE IF n < 100 THEN << DigitChars[(n \div 10) + 1], DigitChars[(n % 10) + 1] >>
  ELSE << DigitChars[(n \div 100) + 1], DigitChars[((n \div 10) % 10) + 1],
          DigitChars[(n % 10) + 1] >>

Year4(y) ==
  << DigitChars[((y \div 1000) % 10) + 1], DigitChars[((y \div 100) % 10) + 1],
     DigitChars[((y \div 10) % 10) + 1], DigitChars[(y % 10) + 1] >>

\* Number.prototype.toString for a natural number
RECURSIVE NatToStr(_)
NatToStr(n) ==
  IF n < 10 THEN << DigitChars[n + 1] >>
  ELSE NatToStr(n \div 10) \o << DigitChars[(n % 10) + 1] >>

\* The length of the run of digits of str that starts at index i.
RECURSIVE DigitRun(_, _)
DigitRun(str, i) ==
  IF i > Len(str) \/ ~IsDigit(str[i]) THEN 0 ELSE 1 + DigitRun(str, i + 1)

\* The first three fractional digits, as thousandths ("5" is 500, "75" is 750).
Thousandths(frac) ==
  LET d(k) == IF k <= Len(frac) THEN DigitVal(frac[k]) ELSE 0
  IN 100 * d(1) + 10 * d(2) + d(3)

\* parseFloat: optional sign, digits, optional "." and digits, read as the
\* longest numeric prefix; NaN when there is no digit.  The result is in
\* thousandths; digits after the third fractional one are dropped.
parseFloat(str) ==
  LET Signed(b, mag) == JNum(IF b = 2 THEN 0 - mag ELSE mag)
      Number(t, b, il, fl) ==
        IF il = 0 /\ fl = 0 THEN JNaN
        ELSE Signed(b, 1000 * DigitsVal(SubSeq(t, b, b + il - 1))
                         + Thousandths(SubSeq(t, b + il + 1, b + il + fl)))
      Fraction(t, b, il) ==
        Number(t, b, il, IF b + il <= Len(t) /\ t[b + il] = "."
                           THEN DigitRun(t, b + il + 1) ELSE 0)
      Digits(t, b) == Fraction(t, b, DigitRun(t, b))
      Sign(t) == Digits(t, IF Len(t) > 0 /\ t[1] = "-" THEN 2 ELSE 1)
  IN Sign(Trim(str))

\* Math.round(x * 100) / 100 on thousandths: Math.round rounds half up.
RoundCents(m) == ((m + 5) \div 10) * 10

(***************************************************************************)
(* Dates                                                                   *)
(***************************************************************************)
IsLeap(y) == (y % 4 = 0 /\ y % 100 # 0) \/ y % 400 = 0

DaysInMonth(y, m) ==
  IF m = 2 THEN (IF IsLeap(y) THEN 29 ELSE 28)
  ELSE IF m \in {4, 6, 9, 11} THEN 30 ELSE 31

\* /^\d{4}-\d{2}-\d{2}$/
IsIsoForm(str) ==
  /\ Len(str) = 10
  /\ str[5] = "-"
  /\ str[8] = "-"
  /\ \A i \in {1, 2, 3, 4, 6, 7, 9, 10} : IsDigit(str[i])

\* !isNaN(new Date("YYYY-MM-DD").getTime()): V8 takes months 1..12 and days
\* 1..31 of any month (a day past the month's end rolls over).
IsoDateParses(str) ==
  DigitsVal(SubSeq(str, 6, 7)) \in 1..12 /\ DigitsVal(SubSeq(str, 9, 10)) \in 1..31

\* The three numeric fields of "a-b-c" or "a/b/c"; <<>> for any other string.
DateParts(str) ==
  LET Cut(i, j) == << SubSeq(str, 1, i - 1), SubSeq(str, i + 1, j - 1),
                      SubSeq(str, j + 1, Len(str)) >>
      At(seps) ==
        IF Cardinality(seps) = 2 /\ \A i \in (1..Len(str)) \ seps : IsDigit(str[i])
          THEN Cut(CHOOSE x \in seps : \A y \in seps : x <= y,
                   CHOOSE x \in seps : \A y \in seps : x >= y)
          ELSE <<>>
  IN At({i \in 1..Len(str) : str[i] \in {"-", "/"}})

\* new Date(y, m - 1, d) for d in 1..31: a day past the month's end rolls
\* over into the next month.
LocalDate(y, m, d) ==
  IF d <= DaysInMonth(y, m) THEN [y |-> y, m |-> m, d |-> d]
  ELSE IF m = 12 THEN [y |-> y + 1, m |-> 1, d |-> d - DaysInMonth(y, m)]
  ELSE [y |-> y, m |-> m + 1, d |-> d - DaysInMonth(y, m)]

DayBefore(dt) ==
  IF dt.d > 1 THEN [dt EXCEPT !.d = dt.d - 1]
  ELSE IF dt.m > 1
    THEN [y |-> dt.y, m |-> dt.m - 1, d |-> DaysInMonth(dt.y, dt.m - 1)]
    ELSE [y |-> dt.y - 1, m |-> 12, d |-> 31]

\* date.toISOString().split('T')[0] of a date built at local midnight: the UTC
\* calendar day, which is the day before when the process runs east of UTC.
ToISODate(dt, east) ==
  LET Day(u) == Year4(u.y) \o << "-" >> \o Pad2(u.m) \o << "-" >> \o Pad2(u.d)
  IN Day(IF east THEN DayBefore(dt) ELSE dt)

(***************************************************************************)
(* OllamaService: the field validators applied to a decoded response       *)
(***************************************************************************)
StrNull == << "n", "u", "l", "l" >>
StrUnknown == << "u", "n", "k", "n", "o", "w", "n" >>

validateString(value) ==
  LET Kept(tr) == IF Len(tr) > 0 /\ ToLower(value.s) # StrNull THEN JStr(tr) ELSE JNull
  IN IF value.t = "str" THEN Kept(Trim(value.s)) ELSE JNull

\* new Date(dateStr) of the last resort.  The strings of this model that get
\* here (no ISO form, none of the three numeric patterns) are not dates for
\* V8: the parse is invalid and nothing is returned.
NativeDateParse(dateStr) == JNull

\* `${year}-${String(month).padStart(2, '0')}-${String(day).padStart(2, '0')}`
\* new Date(year, month - 1, day) is a valid Date for all integers, so the
\* first pattern that matches returns.
validateDate(value) ==
  IF value.t = "str" /\ ToLower(value.s) # StrNull /\ Len(Trim(value.s)) > 0
    THEN
      LET fmt(y, m, d) == JStr(NatToStr(y) \o << "-" >> \o Pad2(m) \o << "-" >> \o Pad2(d))
          Patterns(dateStr, p) ==
            IF IsIsoForm(dateStr) /\ IsoDateParses(dateStr) THEN JStr(dateStr)
            ELSE IF p # <<>> /\ Len(p[1]) \in 1..2 /\ Len(p[2]) \in 1..2 /\ Len(p[3]) = 4
              THEN fmt(DigitsVal(p[3]), DigitsVal(p[1]), DigitsVal(p[2]))
            ELSE IF p # <<>> /\ Len(p[1]) \in 1..2 /\ Len(p[2]) \in 1..2 /\ Len(p[3]) = 2
              THEN fmt(2000 + DigitsVal(p[3]), DigitsVal(p[1]), DigitsVal(p[2]))
            ELSE IF p # <<>> /\ Len(p[1]) = 4 /\ Len(p[2]) \in 1..2 /\ Len(p[3]) \in 1..2
              THEN fmt(DigitsVal(p[1]), DigitsVal(p[2]), DigitsVal(p[3]))
            ELSE NativeDateParse(dateStr)
          Trimmed(dateStr) == Patterns(dateStr, DateParts(dateStr))
      IN Trimmed(Trim(value.s))
    ELSE JNull

validateAmount(value) ==
  LET Rounded(parsed) ==
        IF parsed.t = "num" /\ parsed.v > 0 THEN JNum(RoundCents(parsed.v)) ELSE JNull
  IN IF value.t = "num" THEN Rounded(value)
     ELSE IF value.t = "str" THEN Rounded(parseFloat(value.s))
     ELSE JNull

(***************************************************************************)
(* ExtractedFields and validateAndCleanExtractedData (Electron pipeline)   *)
(*                                                                         *)
(* An ExtractedFields value is [vendor, date, amount, confidence]; items   *)
(* (always empty in the Electron pipeline) and rawText are not carried.    *)
(***************************************************************************)
Fields(vendor, date, amount, confidence) ==
  [vendor |-> vendor, date |-> date, amount |-> amount, confidence |-> confidence]

MaxAmount == 10000

cleanVendor(vendor) ==
  IF Truthy(vendor) /\ vendor.t = "str"
    THEN LET Cleaned(tr) ==
               IF Len(tr) < 2 THEN JNull
               ELSE IF ToLower(tr) \in {StrNull, StrUnknown} THEN JNull
               ELSE JStr(tr)
         IN Cleaned(Trim(vendor.s))
    ELSE vendor

cleanDate(date) ==
  IF Truthy(date) /\ date.t = "str"
    THEN IF ~IsIsoForm(date.s) THEN JNull
         ELSE IF ~IsoDateParses(date.s) THEN JNull
         ELSE date
    ELSE date

cleanAmount(amount) ==
  IF amount.t # "null"
    THEN LET Checked(n) ==
               IF n.t = "nan" THEN JNull
               ELSE IF n.v <= 0 THEN JNull
               ELSE IF n.v > MaxAmount * 1000 THEN JNull
               ELSE JNum(RoundCents(n.v))
         IN Checked(IF amount.t = "str" THEN parseFloat(amount.s) ELSE amount)
    ELSE amount

\* confidence = 0.5, +0.3 amount, +0.2 vendor, +0.1 date, in tenths
recomputeConfidence(vendor, date, amount) ==
  5 + (IF Truthy(amount) THEN 3 ELSE 0)
    + (IF Truthy(vendor) THEN 2 ELSE 0)
    + (IF Truthy(date) THEN 1 ELSE 0)

validateAndCleanExtractedData(data) ==
  LET Cleaned(vendor, date, amount) ==
        Fields(vendor, date, amount, recomputeConfidence(vendor, date, amount))
  IN Cleaned(cleanVendor(data.vendor), cleanDate(data.date), cleanAmount(data.amount))

(***************************************************************************)
(* OCR / PDF text                                                          *)
(*                                                                         *)
(* A text is the sequence of its non-blank lines.  A line is written       *)
(* lead sep num: the words before the number, the separator (blanks and    *)
(* colons only) and one number-like token (a price, a date) or nothing.    *)
(* The regular expressions of the code are computed on these parts,        *)
(* character by character on the token.  Leads contain no digit.           *)
(***************************************************************************)
Line(lead, sep, num) == [lead |-> lead, sep |-> sep, num |-> num]

LineText(l) == l.lead \o l.sep \o l.num

Min(a, b) == IF a <= b THEN a ELSE b

StripDollar(num) == IF num # <<>> /\ num[1] = "$" THEN Tail(num) ELSE num

\* The capture of \d{1,4}(?:\.\d{2})? at the start of x; <<>> when no digit.
SimpleCapture(x) ==
  LET Taken(k) ==
        IF k = 0 THEN <<>>
        ELSE IF k + 1 <= Len(x) /\ x[k + 1] = "." /\ DigitRun(x, k + 2) >= 2
          THEN SubSeq(x, 1, k + 3)
          ELSE SubSeq(x, 1, k)
  IN Taken(Min(DigitRun(x, 1), 4))

\* /(?:total|amount)[\s:]*\$?(\d{1,4}(?:\.\d{2})?)/i on the whole text: the
\* keyword ends a lead and the number follows on the line or, as \s takes
\* line breaks, opens the next line.  The capture of the leftmost match.
SimpleKeyword(lead) ==
  EndsWith(ToLower(lead), << "t", "o", "t", "a", "l" >>) \/ EndsWith(ToLower(lead), << "a", "m", "o", "u", "n", "t" >>)

SimpleAmountAt(ocrText, i) ==
  IF ~SimpleKeyword(ocrText[i].lead) THEN <<>>
  ELSE IF ocrText[i].num # <<>> THEN SimpleCapture(StripDollar(ocrText[i].num))
  ELSE IF i < Len(ocrText) /\ ocrText[i + 1].lead = <<>>
    THEN SimpleCapture(StripDollar(ocrText[i + 1].num))
  ELSE <<>>

\* /(\d{1,2}\/\d{1,2}\/\d{4})/ on a token: the text matched, or <<>>.
SlashDateMatch(num) ==
  LET Matched(p) ==
        IF p # <<>> /\ (\A i \in 1..Len(num) : num[i] # "-")
             /\ Len(p[1]) >= 1 /\ Len(p[2]) \in 1..2 /\ Len(p[3]) >= 4
          THEN SubSeq(p[1], IF Len(p[1]) > 2 THEN Len(p[1]) - 1 ELSE 1, Len(p[1]))
                 \o << "/" >> \o p[2] \o << "/" >> \o SubSeq(p[3], 1, 4)
          ELSE <<>>
  IN Matched(DateParts(num))

(***************************************************************************)
(* trySimpleExtraction (Electron heuristic strategy)                       *)
(***************************************************************************)
\* new Date("M/D/YYYY"): V8's legacy parser takes months 1..12, days 1..31.
simpleDate(match, east) ==
  LET Parsed(m, d, y) ==
        IF m \in 1..12 /\ d \in 1..31 THEN JStr(ToISODate(LocalDate(y, m, d), east))
        ELSE JNull
      Parts(p) == Parsed(DigitsVal(p[1]), DigitsVal(p[2]), DigitsVal(p[3]))
  IN Parts(DateParts(match))

simpleVendor(ocrText) ==
  IF Len(ocrText) > 0
    THEN LET Named(firstLine) ==
               IF Len(firstLine) > 2 /\ Len(firstLine) < 50
                    /\ ~AllDigits(firstLine) /\ firstLine[1] # "$"
                 THEN JStr(firstLine)
                 ELSE JNull
         IN Named(Trim(LineText(ocrText[1])))
    ELSE JNull

trySimpleExtractionIn(ocrText, east) ==
  LET First(S) == CHOOSE i \in S : \A k \in S : i <= k
      Amount(am) == IF am = {} THEN JNull ELSE parseFloat(SimpleAmountAt(ocrText, First(am)))
      Date(dm) == IF dm = {} THEN JNull
                  ELSE simpleDate(SlashDateMatch(ocrText[First(dm)].num), east)
  IN Fields(simpleVendor(ocrText),
            Date({i \in 1..Len(ocrText) : SlashDateMatch(ocrText[i].num) # <<>>}),
            Amount({i \in 1..Len(ocrText) : SimpleAmountAt(ocrText, i) # <<>>}),
            3)

(***************************************************************************)
(* OllamaService.parseExtractionResponse / extractWithRegexFallback        *)
(*                                                                         *)
(* A response text is [shape, vendor, date, amount]:                       *)
(*   "object"    the first {...} span decodes to an object with these      *)
(*               member values (JNull for a missing or null member)        *)
(*   "nonobject" the text decodes to JSON that is no object (42, null)     *)
(*   "broken"    JSON.parse throws; vendor, date, amount are the strings   *)
(*               the three key-value regexes capture (JNull: no match)     *)
(***************************************************************************)
Response(shape, vendor, date, amount) ==
  [shape |-> shape, vendor |-> vendor, date |-> date, amount |-> amount]

NoData == [some |-> FALSE, vendor |-> JNull, date |-> JNull, amount |-> JNull]

Data(vendor, date, amount) ==
  [some |-> TRUE, vendor |-> vendor, date |-> date, amount |-> amount]

extractWithRegexFallback(response) ==
  Data(response.vendor,
       IF response.date.t = "str" THEN validateDate(response.date) ELSE JNull,
       IF response.amount.t = "str" THEN parseFloat(response.amount.s) ELSE JNull)

parseExtractionResponse(response) ==
  CASE response.shape = "object" ->
         Data(validateString(response.vendor), validateDate(response.date),
              validateAmount(response.amount))
    [] response.shape = "nonobject" -> NoData
    [] response.shape = "broken" -> extractWithRegexFallback(response)

(***************************************************************************)
(* extractReceiptData (server heuristic strategy)                          *)
(***************************************************************************)
StartsWith(str, pre) == Len(str) >= Len(pre) /\ SubSeq(str, 1, Len(pre)) = pre

UpperChar(c) ==
  IF \E i \in 1..26 : LowerChars[i] = c
    THEN UpperChars[CHOOSE i \in 1..26 : LowerChars[i] = c]
    ELSE c

IsLetter(c) == \E i \in 1..26 : LowerChars[i] = c \/ UpperChars[i] = c

RemoveCommas(str) == SelectSeq(str, LAMBDA c : c # ",")

\* The length of (?:,\d{3})* at index i of x.
RECURSIVE GroupRun(_, _)
GroupRun(x, i) ==
  IF i <= Len(x) /\ x[i] = "," /\ DigitRun(x, i + 1) >= 3
    THEN 4 + GroupRun(x, i + 4)
    ELSE 0

\* The capture of \d{1,4}(?:,\d{3})*(?:\.\d{2})? at the start of x.
MoneyCapture(x) ==
  LET Taken(k) ==
        IF k = 0 THEN <<>>
        ELSE IF k + 1 <= Len(x) /\ x[k + 1] = "." /\ DigitRun(x, k + 2) >= 2
          THEN SubSeq(x, 1, k + 3)
          ELSE SubSeq(x, 1, k)
      Groups(il) == Taken(IF il = 0 THEN 0 ELSE il + GroupRun(x, il + 1))
  IN Groups(Min(DigitRun(x, 1), 4))

\* /^(thank you|visit|www|http|store #|...)/ on the trimmed lower-case line
SkipPrefixes ==
  { << "t", "h", "a", "n", "k", " ", "y", "o", "u" >>, << "v", "i", "s", "i", "t" >>, << "w", "w", "w" >>, << "h", "t", "t", "p" >>, << "s", "t", "o", "r", "e", " ", "#" >>, << "r", "e", "c", "e", "i", "p", "t", " ", "#" >>,
    << "t", "r", "a", "n", "s", "a", "c", "t", "i", "o", "n" >>, << "c", "a", "r", "d", " ", "#" >>, << "a", "u", "t", "h", " ", "#" >>, << "r", "e", "f", " ", "#" >>, << "s", "h", "i", "p", "p", "i", "n", "g" >>,
    << "c", "o", "n", "t", "a", "c", "t" >>, << "e", "m", "a", "i", "l" >>, << "p", "h", "o", "n", "e" >> }

cleanLineOf(l) == ToLower(Trim(LineText(l)))

IsSkippedLine(l) ==
  LET Skipped(cleanLine) == \E pre \in SkipPrefixes : StartsWith(cleanLine, pre)
  IN Skipped(cleanLineOf(l))

\* totalRegex: the label (total, subtotal, grand total, amount due, balance
\* due) ends the lead; the captured amount text, or <<>>.
TotalKeyword(lead) ==
  LET Labelled(lower) ==
        \/ EndsWith(lower, << "t", "o", "t", "a", "l" >>)
        \/ EndsWith(lower, << "a", "m", "o", "u", "n", "t", " ", "d", "u", "e" >>)
        \/ EndsWith(lower, << "b", "a", "l", "a", "n", "c", "e", " ", "d", "u", "e" >>)
  IN Labelled(ToLower(lead))

TotalMatch(l) ==
  IF TotalKeyword(l.lead) THEN MoneyCapture(StripDollar(l.num)) ELSE <<>>

\* moneyRegex: /\$\s*(\d{1,4}(?:,\d{3})*(?:\.\d{2})?)/g, one token a line
MoneyMatch(l) ==
  IF l.num # <<>> /\ l.num[1] = "$" THEN MoneyCapture(Tail(l.num)) ELSE <<>>

\* parseFloat(amountStr.replace(/,/g, ''))
AmountOf(capture) == parseFloat(RemoveCommas(capture)).v

MaxTotal == 10000

\* A price test without the upper limit.
PositivePrice(v) == v > 0

InPriceRange(v) == v > 0 /\ v < MaxTotal * 1000

\* dateRegex: /(\d{1,2}[-\/]\d{1,2}[-\/](?:\d{2}|\d{4}))/g.  The alternative
\* \d{2} is tried first and ends the match, so two digits of the year are
\* taken.
ServerDateMatch(num) ==
  LET Matched(p) ==
        IF p # <<>> /\ Len(p[1]) >= 1 /\ Len(p[2]) \in 1..2 /\ Len(p[3]) >= 2
          THEN SubSeq(p[1], IF Len(p[1]) > 2 THEN Len(p[1]) - 1 ELSE 1, Len(p[1]))
                 \o << num[Len(p[1]) + 1] >> \o p[2]
                 \o << num[Len(p[1]) + Len(p[2]) + 2] >> \o SubSeq(p[3], 1, 2)
          ELSE <<>>
  IN Matched(DateParts(num))

\* isIrrelevantLine
IrrelevantPrefixes ==
  { << "s", "h", "o", "w", " ", "o", "r", "d", "e", "r" >>, << "o", "r", "d", "e", "r", " ", "#" >>, << "t", "h", "a", "n", "k", " ", "y", "o", "u" >>, << "s", "h", "i", "p", "p", "i", "n", "g" >>, << "c", "o", "n", "t", "a", "c", "t" >>,
    << "t", "o", "t", "a", "l" >>, << "s", "u", "b", "t", "o", "t", "a", "l" >>, << "t", "a", "x" >>, << "o", "r", "d", "e", "r", " ", "d", "e", "t", "a", "i", "l", "s" >>,
    << "r", "e", "c", "e", "i", "p", "t" >>, << "t", "r", "a", "n", "s", "a", "c", "t", "i", "o", "n" >>, << "c", "a", "r", "d" >>, << "a", "u", "t", "h" >>, << "a", "p", "p", "r", "o", "v", "e", "d" >>, << "d", "e", "c", "l", "i", "n", "e", "d" >>,
    << "d", "a", "t", "e" >>, << "t", "i", "m", "e" >>, << "a", "d", "d", "r", "e", "s", "s" >>, << "p", "h", "o", "n", "e" >>, << "e", "m", "a", "i", "l" >>, << "w", "e", "b", "s", "i", "t", "e" >>,
    << "s", "h", "i", "p", " ", "t", "o" >>, << "s", "h", "i", "p", "p", "e", "d", " ", "t", "o" >>, << "r", "e", "d", "e", "e", "m" >>, << "o", "f", "f", "e", "r" >>, << "c", "o", "u", "p", "o", "n" >> }

isIrrelevantLine(line) ==
  LET Irrelevant(lowerLine) ==
        \/ \E pre \in IrrelevantPrefixes : StartsWith(lowerLine, pre)
        \/ Len(lowerLine) >= 2 /\ lowerLine[1] = "$" /\ IsDigit(lowerLine[2])
        \/ Len(lowerLine) > 0 /\ IsDigit(lowerLine[1]) /\ AllDigits(Trim(lowerLine))
        \/ \A i \in 1..Len(lowerLine) : ~IsLetter(lowerLine[i])
        \/ Len(lowerLine) <= 2
  IN Irrelevant(ToLower(line))

\* /\s+/g -> ' '
RECURSIVE CollapseSpaces(_)
CollapseSpaces(str) ==
  IF Len(str) < 2 THEN str
  ELSE IF IsSpace(str[1]) /\ IsSpace(str[2]) THEN CollapseSpaces(Tail(str))
  ELSE << (IF IsSpace(str[1]) THEN " " ELSE str[1]) >> \o CollapseSpaces(Tail(str))

cleanLineForVendorDetection(line) ==
  ToLower(Trim(CollapseSpaces(
    [i \in 1..Len(line) |->
       IF IsLetter(line[i]) \/ IsDigit(line[i]) \/ IsSpace(line[i]) THEN line[i] ELSE " "])))

\* split(/\s+/) of a cleaned line (single blanks, trimmed)
RECURSIVE Words(_)
Words(str) ==
  LET Split(i) == << SubSeq(str, 1, i - 1) >> \o Words(SubSeq(str, i + 1, Len(str)))
      At(sp) == IF sp = {} THEN << str >> ELSE Split(CHOOSE x \in sp : \A y \in sp : x <= y)
  IN IF str = <<>> THEN <<>> ELSE At({i \in 1..Len(str) : str[i] = " "})

Vendor(name, variations) == [name |-> name, variations |-> variations]

knownVendors ==
  << Vendor(<< "W", "a", "l", "m", "a", "r", "t" >>, {<< "w", "a", "l", "m", "a", "r", "t" >>, << "w", "a", "l", "-", "m", "a", "r", "t" >>, << "w", "a", "l", " ", "m", "a", "r", "t" >>, << "w", "a", "l", "m", "a", "r", "t", " ", "s", "u", "p", "e", "r", "c", "e", "n", "t", "e", "r" >>, << "w", "a", "l", "m", "a", "r", "t", ".", "c", "o", "m" >>}),
     Vendor(<< "T", "a", "r", "g", "e", "t" >>, {<< "t", "a", "r", "g", "e", "t" >>, << "t", "a", "r", "g", "e", "t", ".", "c", "o", "m" >>, << "t", "a", "r", "g", "e", "t", " ", "c", "o", "r", "p", "o", "r", "a", "t", "i", "o", "n" >>}),
     Vendor(<< "A", "m", "a", "z", "o", "n" >>, {<< "a", "m", "a", "z", "o", "n" >>, << "a", "m", "a", "z", "o", "n", ".", "c", "o", "m" >>, << "a", "m", "a", "z", "o", "n", " ", "p", "r", "i", "m", "e" >>, << "a", "m", "z", "n" >>, << "a", "m", "a", "z", "o", "n", " ", "m", "a", "r", "k", "e", "t", "p", "l", "a", "c", "e" >>}),
     Vendor(<< "K", "r", "o", "g", "e", "r" >>, {<< "k", "r", "o", "g", "e", "r" >>, << "k", "r", "o", "g", "e", "r", " ", "c", "o" >>, << "k", "r", "o", "g", "e", "r", " ", "f", "a", "m", "i", "l", "y" >>, << "k", "r", "o", "g", "e", "r", ".", "c", "o", "m" >>}),
     Vendor(<< "A", "l", "d", "i" >>, {<< "a", "l", "d", "i" >>, << "a", "l", "d", "i", " ", "i", "n", "c" >>, << "a", "l", "d", "i", " ", "f", "o", "o", "d", "s" >>, << "a", "l", "d", "i", " ", "s", "t", "o", "r", "e" >>}),
     Vendor(<< "C", "o", "s", "t", "c", "o" >>, {<< "c", "o", "s", "t", "c", "o" >>, << "c", "o", "s", "t", "c", "o", " ", "w", "h", "o", "l", "e", "s", "a", "l", "e" >>, << "c", "o", "s", "t", "c", "o", ".", "c", "o", "m" >>}),
     Vendor(<< "I", "n", "s", "t", "a", "c", "a", "r", "t" >>, {<< "i", "n", "s", "t", "a", "c", "a", "r", "t" >>, << "i", "n", "s", "t", "a", "c", "a", "r", "t", ".", "c", "o", "m" >>}),
     Vendor(<< "D", "o", "o", "r", "D", "a", "s", "h" >>, {<< "d", "o", "o", "r", "d", "a", "s", "h" >>, << "d", "o", "o", "r", " ", "d", "a", "s", "h" >>, << "d", "o", "o", "r", "d", "a", "s", "h", ".", "c", "o", "m" >>}),
     Vendor(<< "U", "b", "e", "r", " ", "E", "a", "t", "s" >>, {<< "u", "b", "e", "r", " ", "e", "a", "t", "s" >>, << "u", "b", "e", "r" >>, << "u", "b", "e", "r", "e", "a", "t", "s" >>}),
     Vendor(<< "S", "t", "a", "r", "b", "u", "c", "k", "s" >>, {<< "s", "t", "a", "r", "b", "u", "c", "k", "s" >>, << "s", "t", "a", "r", "b", "u", "c", "k", "s", " ", "c", "o", "f", "f", "e", "e" >>, << "s", "t", "a", "r", "b", "u", "c", "k", "s", " ", "c", "o", "r", "p", "o", "r", "a", "t", "i", "o", "n" >>}),
     Vendor(<< "H", "o", "m", "e", " ", "D", "e", "p", "o", "t" >>, {<< "h", "o", "m", "e", " ", "d", "e", "p", "o", "t" >>, << "t", "h", "e", " ", "h", "o", "m", "e", " ", "d", "e", "p", "o", "t" >>, << "h", "o", "m", "e", "d", "e", "p", "o", "t", ".", "c", "o", "m" >>}),
     Vendor(<< "L", "o", "w", "e", "s" >>, {<< "l", "o", "w", "e", "s" >>, << "l", "o", "w", "e", "s", " ", "h", "o", "m", "e", " ", "i", "m", "p", "r", "o", "v", "e", "m", "e", "n", "t" >>}),
     Vendor(<< "B", "e", "s", "t", " ", "B", "u", "y" >>, {<< "b", "e", "s", "t", " ", "b", "u", "y" >>, << "b", "e", "s", "t", "b", "u", "y", ".", "c", "o", "m" >>}),
     Vendor(<< "C", "V", "S" >>, {<< "c", "v", "s" >>, << "c", "v", "s", " ", "p", "h", "a", "r", "m", "a", "c", "y" >>, << "c", "v", "s", " ", "h", "e", "a", "l", "t", "h" >>}),
     Vendor(<< "W", "a", "l", "g", "r", "e", "e", "n", "s" >>, {<< "w", "a", "l", "g", "r", "e", "e", "n", "s" >>, << "w", "a", "l", "g", "r", "e", "e", "n", "s", " ", "p", "h", "a", "r", "m", "a", "c", "y" >>}),
     Vendor(<< "S", "h", "e", "l", "l" >>, {<< "s", "h", "e", "l", "l" >>, << "s", "h", "e", "l", "l", " ", "o", "i", "l" >>, << "s", "h", "e", "l", "l", " ", "s", "t", "a", "t", "i", "o", "n" >>}),
     Vendor(<< "E", "x", "x", "o", "n" >>, {<< "e", "x", "x", "o", "n" >>, << "e", "x", "x", "o", "n", "m", "o", "b", "i", "l" >>, << "e", "x", "x", "o", "n", " ", "m", "o", "b", "i", "l" >>}),
     Vendor(<< "M", "c", "D", "o", "n", "a", "l", "d", "s" >>, {<< "m", "c", "d", "o", "n", "a", "l", "d", "s" >>, << "m", "c", " ", "d", "o", "n", "a", "l", "d", "s" >>}),
     Vendor(<< "S", "u", "b", "w", "a", "y" >>, {<< "s", "u", "b", "w", "a", "y" >>, << "s", "u", "b", "w", "a", "y", " ", "s", "a", "n", "d", "w", "i", "c", "h", "e", "s" >>}),
     Vendor(<< "C", "h", "i", "p", "o", "t", "l", "e" >>, {<< "c", "h", "i", "p", "o", "t", "l", "e" >>, << "c", "h", "i", "p", "o", "t", "l", "e", " ", "m", "e", "x", "i", "c", "a", "n", " ", "g", "r", "i", "l", "l" >>}),
     Vendor(<< "W", "h", "o", "l", "e", " ", "F", "o", "o", "d", "s" >>, {<< "w", "h", "o", "l", "e", " ", "f", "o", "o", "d", "s" >>, << "w", "h", "o", "l", "e", " ", "f", "o", "o", "d", "s", " ", "m", "a", "r", "k", "e", "t" >>, << "w", "h", "o", "l", "e", "f", "o", "o", "d", "s" >>}) >>

\* fuse.search(pattern)[0].item.name for a pattern that equals a variation
\* (Fuse.js scores an exact match 0, confidence 1); <<>> otherwise.  The
\* lines of this model's texts equal a variation, contain one as a word, or
\* are far from all of them, where Fuse.js returns nothing within its
\* threshold of 0.4.
fuseSearch(pattern) ==
  LET Best(list, hit) ==
        IF hit = {} THEN <<>> ELSE list[CHOOSE k \in hit : \A h \in hit : k <= h].name
      In(list) == Best(list, {k \in 1..Len(list) : pattern \in list[k].variations})
  IN In(knownVendors)

\* The match of one line: the whole cleaned line first, then its words longer
\* than two characters; with confidence 1 the first match is never replaced.
lineVendor(line) ==
  LET FirstWord(words, found) ==
        LET wi == {i \in 1..Len(words) : Len(words[i]) > 2 /\ found[i] # <<>>}
        IN IF wi = {} THEN <<>> ELSE found[CHOOSE i \in wi : \A k \in wi : i <= k]
      ByWord(words) == FirstWord(words, [i \in 1..Len(words) |-> fuseSearch(words[i])])
      Whole(cleanLine, found) == IF found # <<>> THEN found ELSE ByWord(Words(cleanLine))
      Cleaned(cleanLine) ==
        IF isIrrelevantLine(line) \/ Len(cleanLine) < 3 THEN <<>>
        ELSE Whole(cleanLine, fuseSearch(cleanLine))
  IN Cleaned(cleanLineForVendorDetection(line))

VendorScanLines == 20

extractVendorWithFuzzyMatching(lines) ==
  LET First(found) ==
        LET hit == {i \in DOMAIN found : found[i] # <<>>}
        IN IF hit = {} THEN JNull ELSE JStr(found[CHOOSE i \in hit : \A k \in hit : i <= k])
  IN First([i \in 1..Min(VendorScanLines, Len(lines)) |->
              lineVendor(Trim(LineText(lines[i])))])

\* The amount: the explicit total of the last line that has one in range;
\* else the largest price of a line that names a total; else the largest
\* price; else none.
extractReceiptData(ocrText) ==
  LET \* the amount a capture gives when it is a price in range, else 0
      Priced(capture) ==
        LET InRange(v) == IF InPriceRange(v) THEN v ELSE 0
        IN IF capture = <<>> THEN 0 ELSE InRange(AmountOf(capture))
      NamesTotal(cleanLine) ==
        \/ Includes(cleanLine, << "t", "o", "t", "a", "l" >>)
        \/ Includes(cleanLine, << "a", "m", "o", "u", "n", "t", " ", "d", "u", "e" >>)
        \/ Includes(cleanLine, << "b", "a", "l", "a", "n", "c", "e" >>)
      Largest(price, S) == CHOOSE v \in {price[i] : i \in S} : \A i \in S : price[i] <= v
      Amount(total, price, tot, prc, likely) ==
        IF tot # {} THEN JNum(total[CHOOSE i \in tot : \A k \in tot : i >= k])
        ELSE IF likely # {} THEN JNum(Largest(price, likely))
        ELSE IF prc # {} THEN JNum(Largest(price, prc))
        ELSE JNull
      Prices(total, price, prc) ==
        Amount(total, price, {i \in DOMAIN total : total[i] > 0}, prc,
               {i \in prc : NamesTotal(cleanLineOf(ocrText[i]))})
      Totals(kept) ==
        Prices([i \in kept |-> Priced(TotalMatch(ocrText[i]))],
               [i \in kept |-> Priced(MoneyMatch(ocrText[i]))],
               {i \in kept : Priced(MoneyMatch(ocrText[i])) > 0})
      Date(found) ==
        LET dts == {i \in DOMAIN found : found[i] # <<>>}
        IN IF dts = {} THEN JNull ELSE JStr(found[CHOOSE i \in dts : \A k \in dts : i <= k])
      Dates(kept) == Date([i \in kept |-> ServerDateMatch(ocrText[i].num)])
      Kept(kept) == Fields(extractVendorWithFuzzyMatching(ocrText), Dates(kept), Totals(kept), 7)
  IN Kept({i \in 1..Len(ocrText) : ~IsSkippedLine(ocrText[i])})

(***************************************************************************)
(* Category resolution                                                     *)
(***************************************************************************)
Pair(key, value) == [key |-> key, value |-> value]

\* The value of the first entry of an object whose key satisfies Test, in
\* insertion order (Object.entries); <<>> when none does.
FirstValue(entries, Test(_)) ==
  LET First(hit) ==
        IF hit = {} THEN <<>> ELSE entries[CHOOSE i \in hit : \A k \in hit : i <= k].value
  IN First({i \in 1..Len(entries) : Test(entries[i].key)})

\* Electron getOrCreateCategory: vendorCategoryMap
vendorCategoryMap ==
  << Pair(<< "w", "a", "l", "m", "a", "r", "t" >>, << "G", "r", "o", "c", "e", "r", "i", "e", "s" >>), Pair(<< "t", "a", "r", "g", "e", "t" >>, << "R", "e", "t", "a", "i", "l" >>),
     Pair(<< "k", "r", "o", "g", "e", "r" >>, << "G", "r", "o", "c", "e", "r", "i", "e", "s" >>), Pair(<< "s", "t", "a", "r", "b", "u", "c", "k", "s" >>, << "C", "o", "f", "f", "e", "e", " ", "&", " ", "D", "i", "n", "i", "n", "g" >>),
     Pair(<< "m", "c", "d", "o", "n", "a", "l", "d", "s" >>, << "R", "e", "s", "t", "a", "u", "r", "a", "n", "t", "s" >>), Pair(<< "s", "h", "e", "l", "l" >>, << "G", "a", "s", " ", "&", " ", "F", "u", "e", "l" >>),
     Pair(<< "e", "x", "x", "o", "n" >>, << "G", "a", "s", " ", "&", " ", "F", "u", "e", "l" >>), Pair(<< "a", "m", "a", "z", "o", "n" >>, << "O", "n", "l", "i", "n", "e", " ", "S", "h", "o", "p", "p", "i", "n", "g" >>),
     Pair(<< "u", "b", "e", "r" >>, << "T", "r", "a", "n", "s", "p", "o", "r", "t", "a", "t", "i", "o", "n" >>), Pair(<< "d", "o", "o", "r", "d", "a", "s", "h" >>, << "F", "o", "o", "d", " ", "D", "e", "l", "i", "v", "e", "r", "y" >>) >>

CatOther == << "O", "t", "h", "e", "r" >>

electronCategoryName(vendorName) ==
  LET Found(exact, part) ==
        IF exact # <<>> THEN exact
        ELSE IF part # <<>> THEN part
        ELSE CatOther
      Lookup(map, vendor) ==
        Found(FirstValue(map, LAMBDA k : k = vendor),
              FirstValue(map, LAMBDA k : Includes(vendor, k)))
  IN Lookup(vendorCategoryMap, ToLower(vendorName))

\* Server categorizePurchase: vendorMappings
vendorMappings ==
  << Pair(<< "w", "a", "l", "m", "a", "r", "t" >>, << "W", "a", "l", "m", "a", "r", "t" >>), Pair(<< "t", "a", "r", "g", "e", "t" >>, << "T", "a", "r", "g", "e", "t" >>),
     Pair(<< "k", "r", "o", "g", "e", "r" >>, << "K", "r", "o", "g", "e", "r" >>), Pair(<< "a", "l", "d", "i" >>, << "A", "l", "d", "i" >>),
     Pair(<< "c", "o", "s", "t", "c", "o" >>, << "C", "o", "s", "t", "c", "o" >>), Pair(<< "a", "m", "a", "z", "o", "n" >>, << "A", "m", "a", "z", "o", "n" >>),
     Pair(<< "i", "n", "s", "t", "a", "c", "a", "r", "t" >>, << "I", "n", "s", "t", "a", "c", "a", "r", "t" >>), Pair(<< "d", "o", "o", "r", "d", "a", "s", "h" >>, << "D", "o", "o", "r", "D", "a", "s", "h" >>),
     Pair(<< "d", "o", "o", "r", " ", "d", "a", "s", "h" >>, << "D", "o", "o", "r", "D", "a", "s", "h" >>), Pair(<< "u", "b", "e", "r", " ", "e", "a", "t", "s" >>, << "U", "b", "e", "r", " ", "E", "a", "t", "s" >>),
     Pair(<< "u", "b", "e", "r" >>, << "U", "b", "e", "r", " ", "E", "a", "t", "s" >>), Pair(<< "s", "t", "a", "r", "b", "u", "c", "k", "s" >>, << "S", "t", "a", "r", "b", "u", "c", "k", "s" >>),
     Pair(<< "s", "h", "e", "l", "l" >>, << "S", "h", "e", "l", "l" >>), Pair(<< "e", "x", "x", "o", "n" >>, << "E", "x", "x", "o", "n" >>), Pair(<< "b", "p" >>, << "B", "P" >>),
     Pair(<< "c", "v", "s" >>, << "C", "V", "S" >>), Pair(<< "w", "a", "l", "g", "r", "e", "e", "n", "s" >>, << "W", "a", "l", "g", "r", "e", "e", "n", "s" >>),
     Pair(<< "m", "c", "d", "o", "n", "a", "l", "d", "s" >>, << "M", "c", "D", "o", "n", "a", "l", "d", "s" >>), Pair(<< "m", "c", "d", "o", "n", "a", "l", "d" >>, << "M", "c", "D", "o", "n", "a", "l", "d", "s" >>),
     Pair(<< "p", "i", "z", "z", "a", " ", "h", "u", "t" >>, << "P", "i", "z", "z", "a", " ", "H", "u", "t" >>), Pair(<< "d", "o", "m", "i", "n", "o", "s" >>, << "D", "o", "m", "i", "n", "o", "s" >>),
     Pair(<< "t", "a", "c", "o", " ", "b", "e", "l", "l" >>, << "T", "a", "c", "o", " ", "B", "e", "l", "l" >>), Pair(<< "s", "u", "b", "w", "a", "y" >>, << "S", "u", "b", "w", "a", "y" >>),
     Pair(<< "c", "h", "i", "p", "o", "t", "l", "e" >>, << "C", "h", "i", "p", "o", "t", "l", "e" >>), Pair(<< "w", "h", "o", "l", "e", " ", "f", "o", "o", "d", "s" >>, << "W", "h", "o", "l", "e", " ", "F", "o", "o", "d", "s" >>),
     Pair(<< "h", "o", "m", "e", " ", "d", "e", "p", "o", "t" >>, << "H", "o", "m", "e", " ", "D", "e", "p", "o", "t" >>), Pair(<< "l", "o", "w", "e", "s" >>, << "L", "o", "w", "e", "s" >>),
     Pair(<< "b", "e", "s", "t", " ", "b", "u", "y" >>, << "B", "e", "s", "t", " ", "B", "u", "y" >>), Pair(<< "a", "p", "p", "l", "e" >>, << "A", "p", "p", "l", "e" >>),
     Pair(<< "m", "i", "c", "r", "o", "s", "o", "f", "t" >>, << "M", "i", "c", "r", "o", "s", "o", "f", "t" >>), Pair(<< "g", "o", "o", "g", "l", "e" >>, << "G", "o", "o", "g", "l", "e" >>),
     Pair(<< "n", "e", "t", "f", "l", "i", "x" >>, << "N", "e", "t", "f", "l", "i", "x" >>), Pair(<< "s", "p", "o", "t", "i", "f", "y" >>, << "S", "p", "o", "t", "i", "f", "y" >>),
     Pair(<< "a", "t", "&", "t" >>, << "A", "T", "&", "T" >>), Pair(<< "v", "e", "r", "i", "z", "o", "n" >>, << "V", "e", "r", "i", "z", "o", "n" >>),
     Pair(<< "t", "-", "m", "o", "b", "i", "l", "e" >>, << "T", "-", "M", "o", "b", "i", "l", "e" >>) >>

\* word.charAt(0).toUpperCase() + word.slice(1).toLowerCase()
Capitalize(word) ==
  IF word = <<>> THEN <<>>
  ELSE << UpperChar(word[1]) >> \o ToLower(Tail(word))

\* The vendor name that categorizePurchase hands to getOrCreateCategory;
\* vendor is '' when the extracted vendor is absent.
mappedVendorOf(vendor) ==
  LET Found(vendorName, exact, part) ==
        IF exact # <<>> THEN exact
        ELSE IF part # <<>> THEN part
        ELSE Capitalize(vendorName)
      Lookup(map, vendorName, vendorLower) ==
        Found(vendorName, FirstValue(map, LAMBDA k : k = vendorLower),
              FirstValue(map, LAMBDA k : Includes(vendorLower, k)))
      Named(vendorName) == Lookup(vendorMappings, vendorName, ToLower(vendorName))
  IN Named(IF vendor = <<>> THEN << "U", "n", "k", "n", "o", "w", "n" >> ELSE vendor)

\* name.split(' ').map(capitalize).join(' ')
RECURSIVE capitalizeVendorName(_)
capitalizeVendorName(name) ==
  LET Split(i) == Capitalize(SubSeq(name, 1, i - 1)) \o << " " >>
                    \o capitalizeVendorName(SubSeq(name, i + 1, Len(name)))
      At(sp) == IF sp = {} THEN Capitalize(name)
                ELSE Split(CHOOSE x \in sp : \A y \in sp : x <= y)
  IN At({i \in 1..Len(name) : name[i] = " "})

\* Server intelligentVendorToCategory: the vendor lists, in order
categoryLists ==
  << Pair({<< "w", "a", "l", "m", "a", "r", "t" >>, << "t", "a", "r", "g", "e", "t" >>, << "k", "r", "o", "g", "e", "r" >>, << "a", "l", "d", "i" >>, << "c", "o", "s", "t", "c", "o" >>, << "w", "h", "o", "l", "e", " ", "f", "o", "o", "d", "s" >>,
           << "t", "r", "a", "d", "e", "r", " ", "j", "o", "e", "s" >>, << "s", "a", "f", "e", "w", "a", "y" >>, << "p", "u", "b", "l", "i", "x" >>}, << "G", "r", "o", "c", "e", "r", "i", "e", "s" >>),
     Pair({<< "m", "c", "d", "o", "n", "a", "l", "d", "s" >>, << "b", "u", "r", "g", "e", "r", " ", "k", "i", "n", "g" >>, << "k", "f", "c" >>, << "t", "a", "c", "o", " ", "b", "e", "l", "l" >>, << "s", "u", "b", "w", "a", "y" >>,
           << "c", "h", "i", "p", "o", "t", "l", "e" >>, << "s", "t", "a", "r", "b", "u", "c", "k", "s" >>, << "d", "u", "n", "k", "i", "n" >>, << "p", "a", "n", "e", "r", "a" >>}, << "R", "e", "s", "t", "a", "u", "r", "a", "n", "t", "s" >>),
     Pair({<< "d", "o", "o", "r", "d", "a", "s", "h" >>, << "u", "b", "e", "r", " ", "e", "a", "t", "s" >>, << "g", "r", "u", "b", "h", "u", "b" >>, << "p", "o", "s", "t", "m", "a", "t", "e", "s" >>, << "i", "n", "s", "t", "a", "c", "a", "r", "t" >>},
          << "F", "o", "o", "d", " ", "D", "e", "l", "i", "v", "e", "r", "y" >>),
     Pair({<< "s", "h", "e", "l", "l" >>, << "e", "x", "x", "o", "n" >>, << "c", "h", "e", "v", "r", "o", "n" >>, << "b", "p" >>, << "m", "o", "b", "i", "l" >>, << "t", "e", "x", "a", "c", "o" >>, << "a", "r", "c", "o" >>},
          << "G", "a", "s", " ", "&", " ", "F", "u", "e", "l" >>),
     Pair({<< "u", "b", "e", "r" >>, << "l", "y", "f", "t" >>, << "t", "a", "x", "i" >>, << "m", "e", "t", "r", "o" >>, << "b", "u", "s" >>}, << "T", "r", "a", "n", "s", "p", "o", "r", "t", "a", "t", "i", "o", "n" >>),
     Pair({<< "a", "m", "a", "z", "o", "n" >>, << "e", "b", "a", "y" >>, << "e", "t", "s", "y" >>, << "a", "l", "i", " ", "e", "x", "p", "r", "e", "s", "s" >>}, << "O", "n", "l", "i", "n", "e", " ", "S", "h", "o", "p", "p", "i", "n", "g" >>),
     Pair({<< "h", "o", "m", "e", " ", "d", "e", "p", "o", "t" >>, << "l", "o", "w", "e", "s" >>, << "m", "e", "n", "a", "r", "d", "s" >>, << "h", "o", "m", "e", " ", "i", "m", "p", "r", "o", "v", "e", "m", "e", "n", "t" >>}, << "H", "o", "m", "e", " ", "&", " ", "G", "a", "r", "d", "e", "n" >>),
     Pair({<< "b", "e", "s", "t", " ", "b", "u", "y" >>, << "a", "p", "p", "l", "e" >>, << "m", "i", "c", "r", "o", "s", "o", "f", "t" >>, << "g", "a", "m", "e", "s", "t", "o", "p" >>, << "e", "l", "e", "c", "t", "r", "o", "n", "i", "c", "s" >>},
          << "E", "l", "e", "c", "t", "r", "o", "n", "i", "c", "s" >>),
     Pair({<< "c", "v", "s" >>, << "w", "a", "l", "g", "r", "e", "e", "n", "s" >>, << "r", "i", "t", "e", " ", "a", "i", "d" >>, << "p", "h", "a", "r", "m", "a", "c", "y" >>}, << "P", "h", "a", "r", "m", "a", "c", "y", " ", "&", " ", "H", "e", "a", "l", "t", "h" >>),
     Pair({<< "n", "e", "t", "f", "l", "i", "x" >>, << "s", "p", "o", "t", "i", "f", "y" >>, << "h", "u", "l", "u" >>, << "d", "i", "s", "n", "e", "y" >>, << "a", "m", "a", "z", "o", "n", " ", "p", "r", "i", "m", "e" >>, << "y", "o", "u", "t", "u", "b", "e" >>},
          << "E", "n", "t", "e", "r", "t", "a", "i", "n", "m", "e", "n", "t" >>),
     Pair({<< "e", "l", "e", "c", "t", "r", "i", "c" >>, << "g", "a", "s" >>, << "w", "a", "t", "e", "r" >>, << "i", "n", "t", "e", "r", "n", "e", "t" >>, << "p", "h", "o", "n", "e" >>, << "c", "a", "b", "l", "e" >>, << "a", "t", "&", "t" >>,
           << "v", "e", "r", "i", "z", "o", "n" >>, << "t", "-", "m", "o", "b", "i", "l", "e" >>}, << "B", "i", "l", "l", "s", " ", "&", " ", "U", "t", "i", "l", "i", "t", "i", "e", "s" >>) >>

intelligentVendorToCategory(vendorName) ==
  LET Found(listed) == IF listed # <<>> THEN listed ELSE capitalizeVendorName(vendorName)
      Lookup(vendorLower) == Found(FirstValue(categoryLists, LAMBDA k : vendorLower \in k))
  IN IF vendorName = <<>> THEN CatOther ELSE Lookup(ToLower(vendorName))

\* The categories that initDatabase inserts into an empty database.
defaultCategories ==
  << << "G", "r", "o", "c", "e", "r", "i", "e", "s" >>, << "R", "e", "s", "t", "a", "u", "r", "a", "n", "t", "s" >>, << "F", "o", "o", "d", " ", "D", "e", "l", "i", "v", "e", "r", "y" >>, << "G", "a", "s", " ", "&", " ", "F", "u", "e", "l" >>,
     << "T", "r", "a", "n", "s", "p", "o", "r", "t", "a", "t", "i", "o", "n" >>, << "O", "n", "l", "i", "n", "e", " ", "S", "h", "o", "p", "p", "i", "n", "g" >>, << "H", "o", "m", "e", " ", "&", " ", "G", "a", "r", "d", "e", "n" >>, << "E", "l", "e", "c", "t", "r", "o", "n", "i", "c", "s" >>,
     << "P", "h", "a", "r", "m", "a", "c", "y", " ", "&", " ", "H", "e", "a", "l", "t", "h" >>, << "E", "n", "t", "e", "r", "t", "a", "i", "n", "m", "e", "n", "t" >>, << "B", "i", "l", "l", "s", " ", "&", " ", "U", "t", "i", "l", "i", "t", "i", "e", "s" >>,
     << "P", "e", "r", "s", "o", "n", "a", "l", " ", "C", "a", "r", "e" >>, << "T", "r", "a", "v", "e", "l" >>, << "E", "d", "u", "c", "a", "t", "i", "o", "n" >>, << "O", "t", "h", "e", "r" >> >>

(***************************************************************************)
(* Expense materialization helpers                                         *)
(***************************************************************************)
\* new Date().toISOString().split('T')[0] at the time of the run
Today == << "2", "0", "2", "6", "-", "1", "1", "-", "0", "4" >>

ExpenseTags == << "receipt-import", "auto-created" >>

\* invalidVendorPatterns of the Electron createExpenseFromExtractedData, on
\* a trimmed vendor: /^w1\s*w2$/i and /^page\s*\d+$/i
TwoWords(lower, w1, w2s) ==
  StartsWith(lower, w1) /\ Trim(SubSeq(lower, Len(w1) + 1, Len(lower))) \in w2s

isInvalidVendor(vendor) ==
  LET Number(rest) == rest # <<>> /\ AllDigits(rest)
      Invalid(lower) ==
        \/ TwoWords(lower, << "o", "r", "d", "e", "r" >>, {<< "d", "e", "t", "a", "i", "l" >>, << "d", "e", "t", "a", "i", "l", "s" >>})
        \/ TwoWords(lower, << "s", "h", "i", "p" >>, {<< "t", "o" >>})
        \/ TwoWords(lower, << "b", "i", "l", "l" >>, {<< "t", "o" >>})
        \/ lower = << "i", "n", "v", "o", "i", "c", "e" >>
        \/ lower = << "r", "e", "c", "e", "i", "p", "t" >>
        \/ TwoWords(lower, << "t", "h", "a", "n", "k" >>, {<< "y", "o", "u" >>})
        \/ TwoWords(lower, << "c", "u", "s", "t", "o", "m", "e", "r" >>, {<< "c", "o", "p", "y" >>})
        \/ StartsWith(lower, << "p", "a", "g", "e" >>) /\ Number(Trim(SubSeq(lower, 5, Len(lower))))
  IN Invalid(ToLower(vendor))

vendorForDb(vendor) ==
  IF ~Truthy(vendor) THEN << "U", "n", "k", "n", "o", "w", "n" >>
  ELSE IF vendor.s # << "U", "n", "k", "n", "o", "w", "n" >> /\ isInvalidVendor(vendor.s) THEN << "U", "n", "k", "n", "o", "w", "n" >>
  ELSE vendor.s

descriptionOf(vendor) ==
  IF Truthy(vendor) THEN << "P", "u", "r", "c", "h", "a", "s", "e", " ", "a", "t", " " >> \o vendor.s ELSE << "R", "e", "c", "e", "i", "p", "t", " ", "p", "u", "r", "c", "h", "a", "s", "e" >>

\* Electron formatDate on a validated date: a YYYY-MM-DD string is returned
\* as it is; any other string is not a date for V8 here and gives today.
electronFormatDate(dateString) ==
  IF IsIsoForm(dateString) THEN dateString ELSE Today

\* Server formatDate: separators become "/", new Date() parses M/D/YY with
\* V8's legacy rule for two-digit years (0..49 are 2000.., 50..99 are 1950..),
\* toISOString gives the UTC day; an invalid date gives today.
serverFormatDate(dateString, east) ==
  LET Parsed(m, d, y) ==
        IF m \in 1..12 /\ d \in 1..31 THEN ToISODate(LocalDate(y, m, d), east) ELSE Today
      Year(short, yy) == IF short THEN (IF yy < 50 THEN 2000 + yy ELSE 1900 + yy) ELSE yy
      Parts(p) ==
        IF p = <<>> THEN Today
        ELSE Parsed(DigitsVal(p[1]), DigitsVal(p[2]), Year(Len(p[3]) <= 2, DigitsVal(p[3])))
  IN Parts(DateParts(dateString))

\* An amount test that only rejects negative numbers.
AmountNegative(amount) == amount.t = "num" /\ amount.v < 0

\* The amount test of createExpenseFromExtractedData:
\* !extractedData.amount || extractedData.amount <= 0
AmountMissing(amount) == ~Truthy(amount) \/ amount.v <= 0

(***************************************************************************)
(* Inputs of the model                                                     *)
(***************************************************************************)
\* The receipt jobs a run may start.
NumJobs == 1

Jobs == 1..NumJobs

\* The texts an OCR run or a PDF text layer can give, by name.
TextOf(key) ==
  CASE key = "walmart" ->
         << Line(<< "W", "A", "L", "M", "A", "R", "T", " ", "S", "U", "P", "E", "R", "C", "E", "N", "T", "E", "R" >>, <<>>, <<>>),
            Line(<<>>, <<>>, << "0", "1", "/", "1", "5", "/", "2", "0", "2", "4" >>),
            Line(<< "M", "I", "L", "K" >>, << " " >>, << "3", ".", "5", "0" >>),
            Line(<< "T", "O", "T", "A", "L" >>, << ":", " " >>, << "$", "5", ".", "7", "5" >>) >>
    [] key = "cafe" ->
         << Line(<< "C", "o", "r", "n", "e", "r", " ", "C", "a", "f", "e" >>, <<>>, <<>>),
            Line(<< "C", "o", "f", "f", "e", "e" >>, << " " >>, << "$", "4", ".", "2", "5" >>) >>
    [] key = "invoice" ->
         << Line(<< "A", "m", "a", "z", "o", "n", ".", "c", "o", "m", " ", "o", "r", "d", "e", "r", " ", "c", "o", "n", "f", "i", "r", "m", "a", "t", "i", "o", "n", " ", "a", "n", "d", " ", "i", "n", "v", "o", "i", "c", "e" >>, <<>>, <<>>),
            Line(<< "O", "r", "d", "e", "r", " ", "d", "a", "t", "e" >>, << ":", " " >>, << "2", "0", "2", "4", "-", "0", "3", "-", "0", "9" >>),
            Line(<< "G", "r", "a", "n", "d", " ", "T", "o", "t", "a", "l" >>, << ":", " " >>, << "$", "1", ",", "1", "9", "0", ".", "2", "5" >>) >>
    [] key = "garbage" -> << Line(<< "#", "!", "%", "^", "&", "*", "|" >>, <<>>, <<>>) >>
    [] key = "blank" -> <<>>
    [] key = "pdffailed" ->
         << Line(<< "P", "D", "F", " ", "p", "r", "o", "c", "e", "s", "s", "i", "n", "g", " ", "f", "a", "i", "l", "e", "d", " ", "-", " ", "p", "l", "e", "a", "s", "e", " ", "t", "r", "y", " ", "w", "i", "t", "h", " ", "a", "n", " ", "i", "m", "a", "g", "e", " ", "f", "i", "l", "e" >>, <<>>, <<>>) >>

ImageTexts == {"walmart", "cafe", "garbage", "blank"}
PageTexts == {"walmart", "blank"}
LayerTexts == {"invoice", "blank"}

\* A chunk of OCR text: the text of an image or of a PDF text layer (page 0),
\* or of one PDF page behind its "--- Page n ---" marker.
Chunk(page, key) == [page |-> page, key |-> key]

PageMarker(n) == Line(<< "-", "-", "-", " ", "P", "a", "g", "e" >>, << " " >>, NatToStr(n) \o << " ", "-", "-", "-" >>)

RECURSIVE LinesOf(_)
LinesOf(chunks) ==
  IF chunks = <<>> THEN <<>>
  ELSE (IF chunks[1].page = 0 THEN <<>> ELSE << PageMarker(chunks[1].page) >>)
         \o TextOf(chunks[1].key) \o LinesOf(Tail(chunks))

\* The number of characters of a text, its lines joined by line breaks.
RECURSIVE TextLength(_)
TextLength(lines) ==
  IF lines = <<>> THEN 0
  ELSE Len(LineText(lines[1])) + (IF Len(lines) > 1 THEN 1 ELSE 0) + TextLength(Tail(lines))

\* What GET /api/tags can do.
HealthOutcomes == {"refused", "timeout", "http500", "badbody", "nomodel", "ok"}

\* What POST /api/generate can do: fail, or answer with a response text.
Outcome(k, response) == [k |-> k, response |-> response]

NoResponse == Response("none", JNull, JNull, JNull)

ResponseTexts ==
  { \* {"vendor": "Walmart", "date": "2024-01-15", "amount": 5.75}
    Response("object", JStr(<< "W", "a", "l", "m", "a", "r", "t" >>), JStr(<< "2", "0", "2", "4", "-", "0", "1", "-", "1", "5" >>), JNum(5750)),
    \* {"vendor": null, "date": "01/15/2024", "amount": "12.5"}
    Response("object", JNull, JStr(<< "0", "1", "/", "1", "5", "/", "2", "0", "2", "4" >>), JStr(<< "1", "2", ".", "5" >>)),
    \* 42
    Response("nonobject", JNull, JNull, JNull),
    \* I could not read this receipt.
    Response("broken", JNull, JNull, JNull),
    \* {"vendor": "Target", "amount": 0.004,
    Response("broken", JStr(<< "T", "a", "r", "g", "e", "t" >>), JNull, JStr(<< "0", ".", "0", "0", "4" >>)) }

ExtractOutcomes ==
  {Outcome(k, NoResponse) : k \in {"refused", "timeout", "http500", "badbody", "noresponse"}}
    \cup {Outcome("text", r) : r \in ResponseTexts}

(***************************************************************************)
(* State                                                                   *)
(***************************************************************************)
VARIABLES
  mode,        \* "electron" or "server": the program that runs
  tzEast,      \* TRUE when the process runs in a time zone east of UTC
  receipts,    \* receipts table: the row of each job (status "none": no row)
  expenses,    \* expenses table: a set of rows
  categories,  \* categories table: the names, a category's id is its index
  isAvailable, \* OllamaService.isAvailable of the ollamaService singleton
  job,         \* the position and the local variables of each job's handler
  vData,       \* validator harness: the ExtractedFields value at hand
  vOnce,       \* validator harness: the value after the first application
  vCount       \* validator harness: the number of applications so far

vars ==
  << mode, tzEast, receipts, expenses, categories, isAvailable, job, vData, vOnce, vCount >>

Unset == Fields(JNull, JNull, JNull, -1)

NoRow ==
  [status |-> "none", ocr_text |-> <<>>, extracted_data |-> Unset, processed_path |-> "unset",
   trail |-> <<>>]

\* The files a caller can hand in: an image or a PDF of the supported
\* types, a file above the size limit of 10 MB ("big"), a file of any other
\* type ("other").  job[j].ftype keeps which one it was; Electron takes every
\* file that is not named .pdf as an image.
FileTypes == {"image", "pdf", "big", "other"}

IdleJob ==
  [pc |-> "idle", ftype |-> "none", ocrText |-> <<>>, processedPath |-> "unset",
   useLLM |-> FALSE, fetched |-> FALSE, pre |-> Unset, extractedData |-> Unset,
   categoryId |-> 0, expense |-> FALSE, ret |-> "none", result |-> "none",
   threw |-> {}, page |-> 0, numpages |-> 0, firstText |-> "none", retries |-> <<>>,
   rendered |-> {}, ocrCalls |-> 0,
   health |-> "none", llmOut |-> Outcome("none", NoResponse)]

trySimpleExtraction(ocrText) == trySimpleExtractionIn(ocrText, tzEast)

\* OllamaService.extractReceiptData after the fetch: every failure of the
\* call, of response.json() and of the parse is caught and gives null.
llmResult(outcome) ==
  IF outcome.k = "text" THEN parseExtractionResponse(outcome.response) ELSE NoData

\* An extraction in which the heuristic fills the fields that the
\* collaborator left null.
filledByHeuristic(ocrText, useLLM, llmData) ==
  LET Filled(simple) ==
        Fields(IF llmData.vendor = JNull THEN simple.vendor ELSE llmData.vendor,
               IF llmData.date = JNull THEN simple.date ELSE llmData.date,
               IF llmData.amount = JNull THEN simple.amount ELSE llmData.amount, 9)
  IN IF useLLM /\ llmData.some THEN Filled(trySimpleExtraction(ocrText))
     ELSE trySimpleExtraction(ocrText)

\* extractReceiptDataWithGemma up to "PRE-VALIDATION DATA": the fields of a
\* non-null llmData that are not null, else trySimpleExtraction.
preValidation(ocrText, useLLM, llmData) ==
  IF useLLM /\ llmData.some
    THEN Fields(llmData.vendor, llmData.date, llmData.amount, 9)
    ELSE trySimpleExtraction(ocrText)

(***************************************************************************)
(* Storage                                                                 *)
(*                                                                         *)
(* Every statement.run() either succeeds or throws (database locked, disk  *)
(* full, ...): the Ok parameters of the actions.  job[j].threw names the   *)
(* writes of job j that threw.                                             *)
(***************************************************************************)
\* A lookup that never finds a row.
NoCategory(name) == FALSE

HasCategory(name) == \E i \in 1..Len(categories) : categories[i] = name

CategoryId(name) == CHOOSE i \in 1..Len(categories) : categories[i] = name

\* A write of the status column.  trail keeps the values written to the
\* column of the row, in order.
WriteStatus(row, s) == [row EXCEPT !.status = s, !.trail = Append(@, s)]

InsertRow(s) == WriteStatus(NoRow, s)

\* An update that sets 'completed' and leaves the result columns alone.
StatusOnlyRow(row, J, data) == WriteStatus(row, "completed")

CompletedRow(row, J, data) ==
  [WriteStatus(row, "completed") EXCEPT !.ocr_text = J.ocrText, !.extracted_data = data,
                                        !.processed_path = J.processedPath]

\* An expense row of a job that is not linked to its receipt.
UnlinkedRow(j, amount, description, category, date, vendor) ==
  [id |-> j, receipt_id |-> 0, amount |-> amount, description |-> description,
   category |-> category, date |-> date, vendor |-> vendor, tags |-> ExpenseTags]

ExpenseRow(j, amount, description, category, date, vendor) ==
  [id |-> j, receipt_id |-> j, amount |-> amount, description |-> description,
   category |-> category, date |-> date, vendor |-> vendor, tags |-> ExpenseTags]

(***************************************************************************)
(* Electron: processReceiptFile / processReceipt                           *)
(***************************************************************************)
\* The catch block of processReceipt: the row is marked failed and the
\* caller gets success: false.  When that update throws too, processReceipt
\* rejects and the catch block of processReceiptFile returns the failure.
ElectronCatch(j, J) ==
  \E failOk \in BOOLEAN :
    /\ receipts' = IF failOk THEN [receipts EXCEPT ![j] = WriteStatus(@, "failed")]
                   ELSE receipts
    /\ job' = [job EXCEPT ![j] =
                 [J EXCEPT !.pc = "ret", !.ret = "failure",
                           !.threw = IF failOk THEN @ ELSE @ \cup {"failed"}]]

\* From the extracted fields to the first await of
\* createExpenseFromExtractedData: validation, the update that completes the
\* row, the amount test and getOrCreateCategory.
ElectronFinish(j, J, pre) ==
  LET Categorize(J1, name) ==
        \E catOk \in BOOLEAN :
          IF HasCategory(name)
            THEN /\ job' = [job EXCEPT ![j] =
                              [J1 EXCEPT !.pc = "expense", !.categoryId = CategoryId(name)]]
                 /\ UNCHANGED categories
          ELSE IF catOk
            THEN /\ categories' = Append(categories, name)
                 /\ job' = [job EXCEPT ![j] =
                              [J1 EXCEPT !.pc = "expense", !.categoryId = Len(categories) + 1]]
          ELSE /\ job' = [job EXCEPT ![j] =
                            [J1 EXCEPT !.pc = "expret", !.threw = @ \cup {"category"}]]
               /\ UNCHANGED categories
      Store(J1, data) ==
        \E compOk \in BOOLEAN :
          IF ~compOk
            THEN /\ ElectronCatch(j, [J1 EXCEPT !.threw = @ \cup {"completed"}])
                 /\ UNCHANGED categories
            ELSE /\ receipts' = [receipts EXCEPT ![j] = CompletedRow(@, J1, data)]
                 /\ IF AmountMissing(data.amount)
                      THEN /\ job' = [job EXCEPT ![j] = [J1 EXCEPT !.pc = "expret"]]
                           /\ UNCHANGED categories
                      ELSE Categorize(J1, electronCategoryName(IF Truthy(data.vendor)
                                                                 THEN data.vendor.s
                                                                 ELSE CatOther))
      Validated(data) == Store([J EXCEPT !.pre = pre, !.extractedData = data], data)
  IN Validated(validateAndCleanExtractedData(pre))

\* ipc 'process-receipt' -> processReceiptFile: copy the file, insert the
\* row with status 'processing', enter processReceipt up to its first await.
E_Start(j) ==
  /\ mode = "electron"
  /\ job[j].pc = "idle"
  /\ \E ftype \in FileTypes, fsOk, insOk, procOk, failOk \in BOOLEAN :
       LET J == [job[j] EXCEPT !.ftype = ftype]
       IN IF ~fsOk \/ ~insOk
            THEN /\ job' = [job EXCEPT ![j] =
                              [J EXCEPT !.pc = "ret", !.ret = "failure",
                                        !.threw = IF fsOk THEN {"insert"} ELSE {}]]
                 /\ UNCHANGED receipts
          ELSE IF ~procOk
            THEN /\ receipts' = [receipts EXCEPT ![j] =
                                   IF failOk THEN WriteStatus(InsertRow("processing"), "failed")
                                   ELSE InsertRow("processing")]
                 /\ job' = [job EXCEPT ![j] =
                              [J EXCEPT !.pc = "ret", !.ret = "failure",
                                        !.threw = IF failOk THEN {"processing"}
                                                  ELSE {"processing", "failed"}]]
          ELSE /\ receipts' = [receipts EXCEPT ![j] =
                                 WriteStatus(InsertRow("processing"), "processing")]
               /\ job' = [job EXCEPT ![j] =
                            [J EXCEPT !.pc = IF ftype = "pdf" THEN "pdfparse" ELSE "pre"]]
  /\ UNCHANGED << mode, tzEast, expenses, categories, isAvailable, vData, vOnce, vCount >>

\* A preprocessImage that gives up when the advanced pipeline fails, the
\* simplified one having written its file or not.
E_PreprocessStrict(j) ==
  /\ mode = "electron"
  /\ job[j].pc = "pre"
  /\ \E out \in {"advanced", "fallback", "fail"} :
       IF out = "advanced"
         THEN /\ job' = [job EXCEPT ![j].pc = "ocr", ![j].processedPath = out]
              /\ UNCHANGED receipts
         ELSE ElectronCatch(j, [job[j] EXCEPT !.processedPath =
                                   IF out = "fallback" THEN out ELSE @])
  /\ UNCHANGED << mode, tzEast, expenses, categories, isAvailable, vData, vOnce, vCount >>

\* preprocessImage: the advanced pipeline, on its failure the simplified
\* one; when that fails too the error reaches the catch of processReceipt.
E_Preprocess(j) ==
  /\ mode = "electron"
  /\ job[j].pc = "pre"
  /\ \E out \in {"advanced", "fallback", "fail"} :
       IF out = "fail" THEN ElectronCatch(j, job[j])
       ELSE /\ job' = [job EXCEPT ![j].pc = "ocr", ![j].processedPath = out]
            /\ UNCHANGED receipts
  /\ UNCHANGED << mode, tzEast, expenses, categories, isAvailable, vData, vOnce, vCount >>

\* From the text at hand to the call of ollamaService.checkHealth(): the raw
\* text is written to the debug file first.
ToHealth(j, J) ==
  \E dbgOk \in BOOLEAN :
  IF dbgOk
    THEN /\ job' = [job EXCEPT ![j] = [J EXCEPT !.pc = "health"]]
         /\ UNCHANGED receipts
    ELSE ElectronCatch(j, J)

\* performOCR: one Tesseract.recognize call; its error is rethrown.
E_OCR(j) ==
  /\ mode = "electron"
  /\ job[j].pc = "ocr"
  /\ \E out \in ImageTexts \cup {"throw"} :
       LET J == [job[j] EXCEPT !.ocrCalls = @ + 1]
       IN IF out = "throw" THEN ElectronCatch(j, J)
          ELSE ToHealth(j, [J EXCEPT !.ocrText = << Chunk(0, out) >>])
  /\ UNCHANGED << mode, tzEast, expenses, categories, isAvailable, vData, vOnce, vCount >>

PdfLayerMin == 50

\* processPDF returns this instead of throwing.
PdfFailed(J) == [J EXCEPT !.ocrText = << Chunk(0, "pdffailed") >>, !.processedPath = "pdf"]

\* processPDF: pdf-parse; a text layer of more than 50 characters is the text.
E_PdfParse(j) ==
  /\ mode = "electron"
  /\ job[j].pc = "pdfparse"
  /\ \E out \in LayerTexts \cup {"throw"} :
       IF out = "throw" THEN ToHealth(j, PdfFailed(job[j]))
       ELSE IF TextLength(TextOf(out)) > PdfLayerMin
         THEN ToHealth(j, [job[j] EXCEPT !.ocrText = << Chunk(0, out) >>,
                                         !.processedPath = "pdf"])
       ELSE /\ job' = [job EXCEPT ![j].pc = "pdfconv"]
            /\ UNCHANGED receipts
  /\ UNCHANGED << mode, tzEast, expenses, categories, isAvailable, vData, vOnce, vCount >>

\* processPDF: convert(1), the first page only.
E_PdfConvert(j) ==
  /\ mode = "electron"
  /\ job[j].pc = "pdfconv"
  /\ \E out \in {"ok", "nopath", "throw"} :
       IF out = "ok"
         THEN /\ job' = [job EXCEPT ![j].pc = "pdfocr"]
              /\ UNCHANGED receipts
         ELSE ToHealth(j, PdfFailed(job[j]))
  /\ UNCHANGED << mode, tzEast, expenses, categories, isAvailable, vData, vOnce, vCount >>

\* processPDF: Tesseract.recognize on the image of page 1.
E_PdfOCR(j) ==
  /\ mode = "electron"
  /\ job[j].pc = "pdfocr"
  /\ \E out \in PageTexts \cup {"throw"} :
       LET J == [job[j] EXCEPT !.ocrCalls = @ + 1]
       IN IF out = "throw" THEN ToHealth(j, PdfFailed(J))
          ELSE ToHealth(j, [J EXCEPT !.ocrText = << Chunk(0, out) >>,
                                     !.processedPath = "page1"])
  /\ UNCHANGED << mode, tzEast, expenses, categories, isAvailable, vData, vOnce, vCount >>

\* OllamaService.checkHealth: every failure is caught and gives false; the
\* result is also left in the isAvailable field of the singleton.
checkHealth(out) == out = "ok"

\* checkHealth as it would be without its try/catch: a failed health check
\* reaches the catch of processReceipt.
E_HealthUncaught(j) ==
  /\ mode = "electron"
  /\ job[j].pc = "health"
  /\ \E out \in HealthOutcomes :
       /\ isAvailable' = checkHealth(out)
       /\ IF checkHealth(out)
            THEN /\ job' = [job EXCEPT ![j].pc = "posthealth", ![j].useLLM = TRUE,
                                       ![j].health = out]
                 /\ UNCHANGED receipts
            ELSE ElectronCatch(j, [job[j] EXCEPT !.health = out])
  /\ UNCHANGED << mode, tzEast, expenses, categories, vData, vOnce, vCount >>

\* processReceipt at "await ollamaService.checkHealth()".  job[j].health
\* keeps what the health check met.
E_Health(j) ==
  /\ mode = "electron"
  /\ job[j].pc = "health"
  /\ \E out \in HealthOutcomes :
       /\ isAvailable' = checkHealth(out)
       /\ job' = [job EXCEPT ![j].pc = "posthealth", ![j].useLLM = checkHealth(out),
                             ![j].health = out]
  /\ UNCHANGED << mode, tzEast, receipts, expenses, categories, vData, vOnce, vCount >>

\* processReceipt resumes with isOllamaReady.  With the LLM,
\* ollamaService.extractReceiptData reads isAvailable: it sends the request,
\* or returns null at once.  Without it the heuristic runs here.
E_AfterHealth(j) ==
  /\ mode = "electron"
  /\ job[j].pc = "posthealth"
  /\ IF job[j].useLLM
       THEN /\ job' = [job EXCEPT ![j].pc = "llm", ![j].fetched = isAvailable]
            /\ UNCHANGED << receipts, categories >>
       ELSE ElectronFinish(j, [job[j] EXCEPT !.llmOut = Outcome("unused", NoResponse)],
                           preValidation(LinesOf(job[j].ocrText), FALSE, NoData))
  /\ UNCHANGED << mode, tzEast, expenses, isAvailable, vData, vOnce, vCount >>

\* The answer of the collaborator (or the null returned at once), then the
\* rest of extractReceiptDataWithGemma and of processReceipt.  job[j].llmOut
\* keeps what the call met.
E_LLM(j) ==
  /\ mode = "electron"
  /\ job[j].pc = "llm"
  /\ \E out \in ExtractOutcomes :
       /\ job[j].fetched \/ out = Outcome("refused", NoResponse)
       /\ LET Answered(got) ==
                ElectronFinish(j, [job[j] EXCEPT !.llmOut = got],
                               preValidation(LinesOf(job[j].ocrText), TRUE, llmResult(got)))
          IN Answered(IF job[j].fetched THEN out ELSE Outcome("unavailable", NoResponse))
  /\ UNCHANGED << mode, tzEast, expenses, isAvailable, vData, vOnce, vCount >>

\* createExpenseFromExtractedData after getOrCreateCategory: the insert and
\* the select of the new row; an error is caught and null is returned.
E_InsertExpense(j) ==
  /\ mode = "electron"
  /\ job[j].pc = "expense"
  /\ \E expOk \in BOOLEAN :
       LET d == job[j].extractedData
       IN IF expOk
            THEN /\ expenses' = expenses \cup
                      {ExpenseRow(j, d.amount.v, descriptionOf(d.vendor), job[j].categoryId,
                                  IF Truthy(d.date) THEN electronFormatDate(d.date.s) ELSE Today,
                                  vendorForDb(d.vendor))}
                 /\ job' = [job EXCEPT ![j].pc = "expret", ![j].expense = TRUE]
            ELSE /\ job' = [job EXCEPT ![j].pc = "expret", ![j].threw = @ \cup {"expense"}]
                 /\ UNCHANGED expenses
  /\ UNCHANGED << mode, tzEast, receipts, categories, isAvailable, vData, vOnce, vCount >>

\* processReceipt returns success: true and processReceiptFile passes it on.
E_ExpenseReturn(j) ==
  /\ mode = "electron"
  /\ job[j].pc = "expret"
  /\ job' = [job EXCEPT ![j].pc = "done", ![j].result = "success"]
  /\ UNCHANGED << mode, tzEast, receipts, expenses, categories, isAvailable, vData, vOnce, vCount >>

\* processReceiptFile returns success: false.
E_Return(j) ==
  /\ mode = "electron"
  /\ job[j].pc = "ret"
  /\ job' = [job EXCEPT ![j].pc = "done", ![j].result = job[j].ret]
  /\ UNCHANGED << mode, tzEast, receipts, expenses, categories, isAvailable, vData, vOnce, vCount >>

(***************************************************************************)
(* Server: POST /api/receipts and processReceipt                           *)
(***************************************************************************)
MimeTypes == {"image/jpeg", "image/png", "image/gif", "application/pdf", "image/webp", "text/plain"}

\* fileFilter of the multer upload: mimetype.startsWith('image/') or PDF
fileFilter(mimetype) ==
  \/ mimetype \in {"image/jpeg", "image/png", "image/gif", "image/webp"}
  \/ mimetype = "application/pdf"

allowedTypes == {"image/jpeg", "image/png", "image/gif", "application/pdf"}

\* A character test that takes digits only.
DigitsOnly(c) == IsDigit(c)

\* [a-zA-Z0-9$.,:/\-]
IsPlain(c) == IsLetter(c) \/ IsDigit(c) \/ c \in {"$", ".", ",", ":", "/", "-"}

\* validateOCRQuality(text).score
validateOCRQuality(lines) ==
  LET Score(length, special, words, validWords, filled) ==
        10 - (IF length < 20 THEN 3 ELSE 0)
           - (IF length > 0 /\ 10 * special > 3 * length THEN 4 ELSE 0)
           - (IF words > 0 /\ 10 * validWords < 6 * words THEN 2 ELSE 0)
           - (IF filled < 3 THEN 1 ELSE 0)
      Count(text, words) ==
        Score(TextLength(lines),
              Cardinality({c \in (DOMAIN text) \X (1..TextLength(lines)) :
                             /\ c[2] <= Len(text[c[1]])
                             /\ ~IsPlain(text[c[1]][c[2]])
                             /\ ~IsSpace(text[c[1]][c[2]])}),
              Cardinality({w \in (DOMAIN words) \X (1..TextLength(lines)) :
                             w[2] <= Len(words[w[1]]) /\ words[w[1]][w[2]] # <<>>}),
              Cardinality({w \in (DOMAIN words) \X (1..TextLength(lines)) :
                             /\ w[2] <= Len(words[w[1]])
                             /\ words[w[1]][w[2]] # <<>>
                             /\ \A k \in 1..Len(words[w[1]][w[2]]) :
                                   IsPlain(words[w[1]][w[2]][k])}),
              Cardinality({i \in DOMAIN text : Trim(text[i]) # <<>>}))
      Texts(text) == Count(text, [i \in DOMAIN text |-> Words(text[i])])
      Floor(score) == IF score < 0 THEN 0 ELSE score
  IN Floor(Texts([i \in 1..Len(lines) |-> LineText(lines[i])]))

\* The catch block of processReceipt: the row is marked failed.  When that
\* update throws too, the promise rejects and the .catch of the route runs.
ServerCatch(j, J) ==
  \E failOk \in BOOLEAN :
  IF failOk
    THEN /\ receipts' = [receipts EXCEPT ![j] = WriteStatus(@, "failed")]
         /\ job' = [job EXCEPT ![j] = [J EXCEPT !.pc = "done"]]
    ELSE /\ job' = [job EXCEPT ![j] = [J EXCEPT !.pc = "route", !.threw = @ \cup {"failed"}]]
         /\ UNCHANGED receipts

\* The row after the calls of the upload handler that write it.
UploadedRow(procOk, failOk) ==
  IF procOk THEN WriteStatus(InsertRow("pending"), "processing")
  ELSE IF failOk THEN WriteStatus(InsertRow("pending"), "failed")
  ELSE InsertRow("pending")

\* POST /api/receipts: multer, the checks of the handler, the insert of the
\* row with status 'pending', the call of processReceipt (which runs up to
\* its first await) and the response.
S_Upload(j) ==
  /\ mode = "server"
  /\ job[j].pc = "idle"
  /\ \E mimetype \in MimeTypes, ftype \in {"image", "pdf"},
        tooBig, insOk, procOk, failOk \in BOOLEAN :
       LET J == [job[j] EXCEPT !.ftype = IF tooBig THEN "big"
                                         ELSE IF mimetype \notin allowedTypes THEN "other"
                                         ELSE ftype]
       IN IF ~fileFilter(mimetype) \/ tooBig \/ mimetype \notin allowedTypes
            THEN /\ job' = [job EXCEPT ![j] = [J EXCEPT !.pc = "done", !.result = "rejected"]]
                 /\ UNCHANGED receipts
          ELSE IF ~insOk
            THEN /\ job' = [job EXCEPT ![j] =
                              [J EXCEPT !.pc = "done", !.result = "failure", !.threw = {"insert"}]]
                 /\ UNCHANGED receipts
          ELSE /\ receipts' = [receipts EXCEPT ![j] = UploadedRow(procOk, failOk)]
               /\ job' = [job EXCEPT ![j] =
                            [J EXCEPT !.result = "success",
                                      !.pc = IF procOk
                                               THEN (IF ftype = "pdf" THEN "pdfparse" ELSE "pre")
                                             ELSE IF failOk THEN "done" ELSE "route",
                                      !.threw = IF procOk THEN {}
                                                ELSE IF failOk THEN {"processing"}
                                                ELSE {"processing", "failed"}]]
  /\ UNCHANGED << mode, tzEast, expenses, categories, isAvailable, vData, vOnce, vCount >>

\* The .catch of the route: one more write of 'failed'; nothing handles its
\* error.
S_RouteCatch(j) ==
  /\ mode = "server"
  /\ job[j].pc = "route"
  /\ \E routeOk \in BOOLEAN :
       IF routeOk
         THEN /\ receipts' = [receipts EXCEPT ![j] = WriteStatus(@, "failed")]
              /\ job' = [job EXCEPT ![j].pc = "done"]
         ELSE /\ job' = [job EXCEPT ![j].pc = "done", ![j].threw = @ \cup {"route"}]
              /\ UNCHANGED receipts
  /\ UNCHANGED << mode, tzEast, expenses, categories, isAvailable, vData, vOnce, vCount >>

\* processReceipt as it would end if createExpenseFromExtractedData let its
\* errors out: they reach the catch of processReceipt after the row is
\* completed.
S_FinishRethrows(j) ==
  /\ mode = "server"
  /\ job[j].pc = "fin"
  /\ IF job[j].threw # {}
       THEN ServerCatch(j, job[j])
       ELSE /\ job' = [job EXCEPT ![j].pc = "done"]
            /\ UNCHANGED receipts
  /\ UNCHANGED << mode, tzEast, expenses, categories, isAvailable, vData, vOnce, vCount >>

\* The server's createExpenseFromExtractedData has no await: the amount test,
\* categorizePurchase with getOrCreateCategory and the insert run at once, and
\* every error is caught.
ServerExpense(j, J, data) ==
  LET Insert(id, row) ==
        \E expOk \in BOOLEAN :
          IF expOk
            THEN /\ expenses' = expenses \cup {row}
                 /\ job' = [job EXCEPT ![j] =
                              [J EXCEPT !.pc = "fin", !.categoryId = id, !.expense = TRUE]]
            ELSE /\ job' = [job EXCEPT ![j] =
                              [J EXCEPT !.pc = "fin", !.categoryId = id,
                                        !.threw = @ \cup {"expense"}]]
                 /\ UNCHANGED expenses
      Categorized(id) ==
        Insert(id, ExpenseRow(j, data.amount.v, descriptionOf(data.vendor), id,
                              IF Truthy(data.date) THEN serverFormatDate(data.date.s, tzEast)
                              ELSE Today,
                              IF Truthy(data.vendor) THEN data.vendor.s ELSE << "U", "n", "k", "n", "o", "w", "n" >>))
      Categorize(name) ==
        \E catOk \in BOOLEAN :
          IF HasCategory(name)
            THEN /\ Categorized(CategoryId(name))
                 /\ UNCHANGED categories
          ELSE IF catOk
            THEN /\ Categorized(Len(categories) + 1)
                 /\ categories' = Append(categories, name)
          ELSE /\ job' = [job EXCEPT ![j] =
                            [J EXCEPT !.pc = "fin", !.threw = @ \cup {"category"}]]
               /\ UNCHANGED << categories, expenses >>
  IN IF AmountMissing(data.amount)
       THEN /\ job' = [job EXCEPT ![j] = [J EXCEPT !.pc = "fin"]]
            /\ UNCHANGED << categories, expenses >>
       ELSE Categorize(intelligentVendorToCategory(
                         mappedVendorOf(IF Truthy(data.vendor) THEN data.vendor.s ELSE <<>>)))

\* processReceipt from the text at hand: extractReceiptData, the update that
\* completes the row, createExpenseFromExtractedData.
ServerFinish(j, J) ==
  LET Store(J1, data) ==
        \E compOk \in BOOLEAN :
          IF ~compOk
            THEN /\ ServerCatch(j, [J1 EXCEPT !.threw = @ \cup {"completed"}])
                 /\ UNCHANGED << categories, expenses >>
            ELSE /\ receipts' = [receipts EXCEPT ![j] = CompletedRow(@, J1, data)]
                 /\ ServerExpense(j, J1, data)
      Extracted(data) == Store([J EXCEPT !.extractedData = data], data)
  IN Extracted(extractReceiptData(LinesOf(J.ocrText)))

\* preprocessImage of the server: as in Electron.
S_Preprocess(j) ==
  /\ mode = "server"
  /\ job[j].pc = "pre"
  /\ \E out \in {"advanced", "fallback", "fail"} :
       IF out = "fail" THEN ServerCatch(j, job[j])
       ELSE /\ job' = [job EXCEPT ![j].pc = "ocr", ![j].processedPath = out]
            /\ UNCHANGED receipts
  /\ UNCHANGED << mode, tzEast, expenses, categories, isAvailable, vData, vOnce, vCount >>

QualityMin == 5

\* processReceipt when performEnhancedOCR has returned a text: after the
\* first pass a score under 5 starts the retry; the text of the retry is
\* taken when it scores higher.  retries holds the texts that
\* performEnhancedOCR(processedPath, true) has returned.
AfterOCR(j, J, text) ==
  LET Scored(score, first) ==
        IF J.firstText = "none" /\ score < QualityMin
          THEN /\ job' = [job EXCEPT ![j] =
                            [J EXCEPT !.pc = "ocr", !.firstText = text,
                                      !.ocrText = << Chunk(0, text) >>]]
               /\ UNCHANGED << receipts, categories, expenses >>
          ELSE ServerFinish(j, IF J.firstText = "none"
                                 THEN [J EXCEPT !.ocrText = << Chunk(0, text) >>]
                               ELSE IF score > first
                                 THEN [J EXCEPT !.ocrText = << Chunk(0, text) >>,
                                                !.retries = Append(@, text)]
                               ELSE [J EXCEPT !.retries = Append(@, text)])
      Quality == [key \in ImageTexts |-> validateOCRQuality(TextOf(key))]
  IN Scored(Quality[text], IF J.firstText = "none" THEN 0 ELSE Quality[J.firstText])

\* performEnhancedOCR: Tesseract.recognize with the configuration; on its
\* error the catch block calls recognize without it.
S_OCR(j) ==
  /\ mode = "server"
  /\ job[j].pc = "ocr"
  /\ \E out \in ImageTexts \cup {"throw"} :
       LET J == [job[j] EXCEPT !.ocrCalls = @ + 1]
       IN IF out = "throw"
            THEN /\ job' = [job EXCEPT ![j] = [J EXCEPT !.pc = "ocrbasic"]]
                 /\ UNCHANGED << receipts, categories, expenses >>
            ELSE AfterOCR(j, J, out)
  /\ UNCHANGED << mode, tzEast, isAvailable, vData, vOnce, vCount >>

S_OCRFallback(j) ==
  /\ mode = "server"
  /\ job[j].pc = "ocrbasic"
  /\ \E out \in ImageTexts \cup {"throw"} :
       LET J == [job[j] EXCEPT !.ocrCalls = @ + 1]
       IN IF out = "throw"
            THEN /\ ServerCatch(j, J)
                 /\ UNCHANGED << categories, expenses >>
            ELSE AfterOCR(j, J, out)
  /\ UNCHANGED << mode, tzEast, isAvailable, vData, vOnce, vCount >>

\* The pages of a PDF the model draws, and the pages processPDF looks at.
MaxPdfPages == 2

PageLimit == 5

\* processPDF of the server after a page: the next page, or the end of the
\* loop, where an empty combined text is an error.
NextPage(j, J) ==
  IF J.page < Min(IF J.numpages = 0 THEN 1 ELSE J.numpages, PageLimit)
    THEN /\ job' = [job EXCEPT ![j] = [J EXCEPT !.pc = "pdfconv", !.page = @ + 1]]
         /\ UNCHANGED << receipts, categories, expenses >>
  ELSE IF J.ocrText = <<>>
    THEN /\ ServerCatch(j, J)
         /\ UNCHANGED << categories, expenses >>
  ELSE ServerFinish(j, [J EXCEPT !.processedPath =
                                   IF J.processedPath = "unset" THEN "pdf" ELSE @])

\* processPDF of the server: readFileSync and pdf-parse; a text layer of
\* more than 50 characters is the text, else the pages are converted.
S_PdfParse(j) ==
  /\ mode = "server"
  /\ job[j].pc = "pdfparse"
  /\ \E out \in LayerTexts \cup {"throw"}, numpages \in 0..MaxPdfPages :
       IF out = "throw"
         THEN /\ numpages = 0
              /\ ServerCatch(j, job[j])
              /\ UNCHANGED << categories, expenses >>
       ELSE IF TextLength(TextOf(out)) > PdfLayerMin
         THEN /\ numpages = 1
              /\ ServerFinish(j, [job[j] EXCEPT !.ocrText = << Chunk(0, out) >>,
                                                !.processedPath = "pdf"])
       ELSE /\ job' = [job EXCEPT ![j].pc = "pdfconv", ![j].numpages = numpages, ![j].page = 1]
            /\ UNCHANGED << receipts, categories, expenses >>
  /\ UNCHANGED << mode, tzEast, isAvailable, vData, vOnce, vCount >>

\* convert(pageNum): without a path, or on an error, the page is skipped.
\* rendered holds the pages of which convert has written the image.
S_PdfConvert(j) ==
  /\ mode = "server"
  /\ job[j].pc = "pdfconv"
  /\ \E out \in {"ok", "nopath", "throw"} :
       IF out = "ok"
         THEN /\ job' = [job EXCEPT ![j].pc = "pdfocr",
                                    ![j].rendered = @ \cup {job[j].page},
                                    ![j].processedPath =
                                       IF job[j].page = 1 THEN "page1" ELSE @]
              /\ UNCHANGED << receipts, categories, expenses >>
         ELSE NextPage(j, job[j])
  /\ UNCHANGED << mode, tzEast, isAvailable, vData, vOnce, vCount >>

\* Tesseract.recognize on the image of the page: a text that is not blank
\* is appended behind the marker of the page.
S_PdfOCR(j) ==
  /\ mode = "server"
  /\ job[j].pc = "pdfocr"
  /\ \E out \in PageTexts \cup {"throw"} :
       LET J == [job[j] EXCEPT !.ocrCalls = @ + 1]
       IN NextPage(j, IF out = "throw" \/ TextOf(out) = <<>> THEN J
                      ELSE [J EXCEPT !.ocrText = Append(@, Chunk(J.page, out))])
  /\ UNCHANGED << mode, tzEast, isAvailable, vData, vOnce, vCount >>

\* processReceipt resumes behind "await createExpenseFromExtractedData" and
\* resolves.
S_Finish(j) ==
  /\ mode = "server"
  /\ job[j].pc = "fin"
  /\ job' = [job EXCEPT ![j].pc = "done"]
  /\ UNCHANGED << mode, tzEast, receipts, expenses, categories, isAvailable, vData, vOnce, vCount >>

(***************************************************************************)
(* The manual create-expense endpoints: ipc 'create-expense' of Electron   *)
(* and POST /api/expenses of the server.  The INSERT names no receipt_id:  *)
(* the column is NULL, written 0 here.  The ids of these rows come after   *)
(* those of the jobs.                                                      *)
(***************************************************************************)
MaxManual == 1

ManualTags == {<<>>, << "receipt-import", "auto-created" >>, << "lunch" >>}

ManualRows == {e \in expenses : e.id \notin Jobs}

CreateExpense ==
  /\ mode \in {"electron", "server"}
  /\ Cardinality(ManualRows) < MaxManual
  /\ \E amount \in {0, 12500, 1000000 * 1000}, description \in {<<>>, << "L", "u", "n", "c", "h" >>},
        tags \in ManualTags, categoryOk, dateOk, insOk \in BOOLEAN :
       IF \/ amount <= 0
          \/ Trim(description) = <<>>
          \/ ~categoryOk
          \/ ~dateOk
          \/ amount > 999999990
          \/ Len(description) > 255
          \/ ~insOk
         THEN UNCHANGED expenses
         ELSE expenses' = expenses \cup
                {[id |-> NumJobs + Cardinality(ManualRows) + 1, receipt_id |-> 0,
                  amount |-> amount, description |-> Trim(description),
                  category |-> CategoryId(CatOther), date |-> Today, vendor |-> <<>>,
                  tags |-> tags]}
  /\ UNCHANGED << mode, tzEast, receipts, categories, isAvailable, job, vData, vOnce, vCount >>

\* The category ids an edit form can send: the first row of the table, and
\* an id that no row has.
FormCategories == {1, Len(categories) + 1}

\* An update of an expense on a database that does not enforce the foreign
\* key of the category column.
UpdateExpenseUnchecked ==
  /\ mode \in {"electron", "server"}
  /\ \E e \in expenses, category \in FormCategories, updOk \in BOOLEAN :
       IF e.amount <= 0 \/ e.amount > 999999990 \/ ~updOk
         THEN UNCHANGED expenses
         ELSE expenses' = (expenses \ {e}) \cup {[e EXCEPT !.category = category]}
  /\ UNCHANGED << mode, tzEast, receipts, categories, isAvailable, job, vData, vOnce, vCount >>

\* ipc 'update-expense' and PUT /api/expenses/:id on an existing row, job
\* made or manual: the form sends the values of the row with another
\* category.  The UPDATE writes amount, description, category, date, vendor
\* and tags, never receipt_id; better-sqlite3 enforces the declared foreign
\* keys, so a category id without a row makes the statement throw.
UpdateExpense ==
  /\ mode \in {"electron", "server"}
  /\ \E e \in expenses, category \in FormCategories, updOk \in BOOLEAN :
       IF \/ e.amount <= 0
          \/ e.amount > 999999990
          \/ category \notin 1..Len(categories)
          \/ ~updOk
         THEN UNCHANGED expenses
         ELSE expenses' = (expenses \ {e}) \cup {[e EXCEPT !.category = category]}
  /\ UNCHANGED << mode, tzEast, receipts, categories, isAvailable, job, vData, vOnce, vCount >>

\* ipc 'delete-expense' and DELETE /api/expenses/:id on an existing row.
DeleteExpense ==
  /\ mode \in {"electron", "server"}
  /\ \E e \in expenses, delOk \in BOOLEAN :
       expenses' = IF delOk THEN expenses \ {e} ELSE expenses
  /\ UNCHANGED << mode, tzEast, receipts, categories, isAvailable, job, vData, vOnce, vCount >>

(***************************************************************************)
(* The receipt pipelines                                                   *)
(***************************************************************************)
Init ==
  /\ mode \in {"electron", "server"}
  /\ tzEast \in BOOLEAN
  /\ receipts = [j \in Jobs |-> NoRow]
  /\ expenses = {}
  /\ categories = defaultCategories
  /\ isAvailable = FALSE
  /\ job = [j \in Jobs |-> IdleJob]
  /\ vData = Unset
  /\ vOnce = Unset
  /\ vCount = 0

Next ==
  \/ \E j \in Jobs :
       \/ E_Start(j)
       \/ E_Preprocess(j)
       \/ E_OCR(j)
       \/ E_PdfParse(j)
       \/ E_PdfConvert(j)
       \/ E_PdfOCR(j)
       \/ E_Health(j)
       \/ E_AfterHealth(j)
       \/ E_LLM(j)
       \/ E_InsertExpense(j)
       \/ E_ExpenseReturn(j)
       \/ E_Return(j)
       \/ S_Upload(j)
       \/ S_RouteCatch(j)
       \/ S_Preprocess(j)
       \/ S_OCR(j)
       \/ S_OCRFallback(j)
       \/ S_PdfParse(j)
       \/ S_PdfConvert(j)
       \/ S_PdfOCR(j)
       \/ S_Finish(j)
  \/ CreateExpense
  \/ UpdateExpense
  \/ DeleteExpense

Spec == Init /\ [][Next]_vars

(***************************************************************************)
(* validateAndCleanExtractedData on its own: applied MaxApply times to an  *)
(* ExtractedFields value.  vData is the value, vOnce the result of the     *)
(* first application, vCount the number of applications.                   *)
(***************************************************************************)
MaxApply == 2

VendorInputs ==
  {JNull, JStr(<< "I", "n", "v", "o", "i", "c", "e" >>), JStr(<< "P", "a", "g", "e", " ", "2" >>), JStr(<<>>), JStr(<< " ", "W", "a", "l", "m", "a", "r", "t", " " >>), JStr(<< "x" >>), JStr(<< "U", "n", "k", "n", "o", "w", "n" >>),
   JStr(<< "C", "o", "r", "n", "e", "r", " ", "C", "a", "f", "e" >>)}

DateInputs ==
  {JNull, JStr(<< "2", "0", "2", "4", "-", "0", "1", "-", "1", "5" >>), JStr(<< "2", "0", "2", "4", "-", "1", "3", "-", "4", "5" >>), JStr(<< "0", "1", "/", "1", "5", "/", "2", "0", "2", "4" >>),
   JStr(<< "2", "0", "2", "4", "-", "0", "2", "-", "3", "0" >>)}

\* Numbers in thousandths: 0, -5, 0.004, 0.006, 5.75, 12.344, 9999.996,
\* 10000, 10000.004
AmountInputs ==
  {JNull, JNaN, JStr(<< "1", "2", ".", "5" >>), JStr(<< "a", "b", "c" >>), JStr(<< "0", ".", "0", "0", "4" >>)}
    \cup {JNum(n) : n \in {0, -5000, 4, 6, 5750, 12344, 9999996, 10000000, 10000004}}

InitValidate ==
  /\ mode = "validate"
  /\ tzEast = FALSE
  /\ receipts = [j \in Jobs |-> NoRow]
  /\ expenses = {}
  /\ categories = defaultCategories
  /\ isAvailable = FALSE
  /\ job = [j \in Jobs |-> IdleJob]
  /\ vData \in {Fields(v, d, a, c) : v \in VendorInputs, d \in DateInputs,
                                     a \in AmountInputs, c \in {3, 9}}
  /\ vOnce = Unset
  /\ vCount = 0

Validate ==
  /\ mode = "validate"
  /\ vCount < MaxApply
  /\ LET Applied(data) ==
           /\ vData' = data
           /\ vOnce' = IF vCount = 0 THEN data ELSE vOnce
     IN Applied(validateAndCleanExtractedData(vData))
  /\ vCount' = vCount + 1
  /\ UNCHANGED << mode, tzEast, receipts, expenses, categories, isAvailable, job >>

SpecValidate == InitValidate /\ [][Validate]_vars

(***************************************************************************)
(* Properties                                                              *)
(***************************************************************************)

\* C1: every job whose row was created ends with status 'completed' or
\* 'failed', never 'pending' or 'processing', whatever steps fail.  Stated on
\* the finished job: when the handlers of job j have run to their end, its
\* row, if there is one, is completed or failed.
C1_EndsCompletedOrFailed ==
  \A j \in Jobs :
    job[j].pc = "done" /\ receipts[j].status # "none"
      => receipts[j].status \in {"completed", "failed"}

\* C2 as stated: the status column of a row only changes pending ->
\* processing, processing -> completed or processing -> failed, and a
\* completed or failed row is never written again with another status.
C2_OnlySpecTransitions ==
  \A j \in Jobs :
    \A i \in 1..(Len(receipts[j].trail) - 1) :
      \/ receipts[j].trail[i] = "processing" /\ receipts[j].trail[i + 1] = "processing"
      \/ << receipts[j].trail[i], receipts[j].trail[i + 1] >>
           \in {<< "pending", "processing" >>, << "processing", "completed" >>,
                << "processing", "failed" >>}

\* C2, amended: the status column only changes pending -> processing,
\* processing -> completed, processing -> failed, or pending -> failed when
\* the write of 'processing' threw; nothing is written to the status of a
\* completed or failed row.
C2_Transitions ==
  \A j \in Jobs :
    \A i \in 1..(Len(receipts[j].trail) - 1) :
      \/ receipts[j].trail[i] = "processing" /\ receipts[j].trail[i + 1] = "processing"
      \/ << receipts[j].trail[i], receipts[j].trail[i + 1] >>
           \in {<< "pending", "processing" >>, << "processing", "completed" >>,
                << "processing", "failed" >>}
      \/ /\ receipts[j].trail[i] = "pending"
         /\ receipts[j].trail[i + 1] = "failed"
         /\ "processing" \in job[j].threw

\* A finished job whose row was completed and whose expense insert then
\* threw: the row is still completed.
C2_Witness ==
  \E j \in Jobs :
    /\ job[j].pc = "done"
    /\ "expense" \in job[j].threw
    /\ receipts[j].trail \in {<< "pending", "processing", "completed" >>,
                              << "processing", "processing", "completed" >>}

\* C3: no expense row is inserted for a job whose extracted amount is absent
\* after validation, and createExpenseFromExtractedData then makes no storage
\* write: no category is looked up or inserted, no expense insert is tried.
C3_NoExpenseWithoutAmount ==
  \A j \in Jobs :
    receipts[j].status = "completed" /\ receipts[j].extracted_data.amount = JNull
      => /\ \A e \in expenses : e.receipt_id # j
         /\ ~job[j].expense
         /\ job[j].categoryId = 0
         /\ job[j].threw \cap {"category", "expense"} = {}

\* A finished, completed job with a vendor but no amount, and no expense.
C3_Witness ==
  \E j \in Jobs :
    /\ job[j].pc = "done"
    /\ receipts[j].status = "completed"
    /\ receipts[j].extracted_data.amount = JNull
    /\ receipts[j].extracted_data.vendor # JNull
    /\ \A e \in expenses : e.receipt_id # j

\* C4: when a storage write of the pipeline for a job fails (the update of
\* the receipt row, the category insert, the expense insert), the job ends
\* with status 'failed' and the caller is told that it failed (the caller of
\* processReceiptFile; the server has answered the upload before the
\* pipeline runs, its callers read the status).  Runs in which the write of
\* 'failed' throws as well are left to C1.
C4_WriteFailureFailsJob ==
  \A j \in Jobs :
    ( /\ job[j].pc = "done"
      /\ job[j].threw \cap {"processing", "completed", "category", "expense"} # {}
      /\ job[j].threw \cap {"failed", "route"} = {} )
      => /\ receipts[j].status = "failed"
         /\ mode = "electron" => job[j].result = "failure"

\* C5: no outcome of the LLM collaborator makes an Electron job fail: when
\* the OCR text was obtained (the health check was reached) and no storage
\* write threw, the finished job is completed and processReceiptFile returns
\* success, whatever checkHealth and the extraction call met.
C5_CollaboratorNeverFails ==
  \A j \in Jobs :
    mode = "electron" /\ job[j].pc = "done" /\ job[j].health # "none" /\ job[j].threw = {}
      => receipts[j].status = "completed" /\ job[j].result = "success"

\* A finished Electron job whose health check or extraction call failed,
\* completed and reported as a success.
C5_Witness ==
  \E j \in Jobs :
    /\ mode = "electron"
    /\ job[j].pc = "done"
    /\ \/ job[j].health \in {"refused", "timeout", "http500", "badbody", "nomodel"}
       \/ job[j].llmOut.k \in {"refused", "timeout", "http500", "badbody", "noresponse"}
    /\ job[j].threw = {}
    /\ receipts[j].status = "completed"
    /\ job[j].result = "success"

\* The collaborator was unavailable or failed, or answered with a text that
\* is no JSON object and holds none of the three fields.
NothingDecoded(out) ==
  \/ out.k \notin {"none", "text"}
  \/ /\ out.k = "text"
     /\ \/ out.response.shape = "nonobject"
        \/ /\ out.response.shape = "broken"
           /\ out.response.vendor = JNull
           /\ out.response.date = JNull
           /\ out.response.amount = JNull

\* C6: whenever the collaborator is unavailable, times out or returns a text
\* from which no structured object can be decoded, the pre-validation vendor,
\* date and amount are exactly those trySimpleExtraction computes from the
\* same OCR text.
C6_FallbackIsHeuristic ==
  \A j \in Jobs :
    mode = "electron" /\ job[j].pre # Unset /\ NothingDecoded(job[j].llmOut)
      => LET Same(simple) ==
               /\ job[j].pre.vendor = simple.vendor
               /\ job[j].pre.date = simple.date
               /\ job[j].pre.amount = simple.amount
         IN Same(trySimpleExtraction(LinesOf(job[j].ocrText)))

\* C7: the confidence of every ExtractedFields the pipeline stores lies in
\* [0, 1] (0..10 tenths).
C7_ConfidenceInUnitInterval ==
  \A j \in Jobs :
    receipts[j].status = "completed" => receipts[j].extracted_data.confidence \in 0..10

\* C8: validateAndCleanExtractedData is idempotent: the second application
\* gives the vendor, date, amount and confidence of the first.
C8_Idempotent ==
  mode = "validate" /\ vCount = MaxApply => vData = vOnce

\* C9: after validateAndCleanExtractedData the amount is absent or a number a
\* with 0 < a <= 10000 and at most two fractional digits.
C9_AmountInRange ==
  mode = "validate" /\ vCount >= 1
    => \/ vData.amount = JNull
       \/ /\ vData.amount.t = "num"
          /\ vData.amount.v > 0
          /\ vData.amount.v <= MaxAmount * 1000
          /\ vData.amount.v % 10 = 0

\* C10: the date a completed job stores in extracted_data is absent or a
\* string of the form YYYY-MM-DD, in the server and in the Electron pipeline.
C10_StoredDateIsIso ==
  \A j \in Jobs :
    receipts[j].status = "completed"
      => \/ receipts[j].extracted_data.date = JNull
         \/ /\ receipts[j].extracted_data.date.t = "str"
            /\ IsIsoForm(receipts[j].extracted_data.date.s)

(***************************************************************************)
(* The heuristic strategies on their own: extractReceiptData of the server *)
(* and trySimpleExtraction of Electron applied to a text.  vData is the    *)
(* text, vOnce the two results, vCount the number of applications.         *)
(***************************************************************************)
\* Whole dollars as written, with and without thousands separators.
WrittenDollars ==
  { [text |-> << "0" >>, n |-> 0], [text |-> << "5" >>, n |-> 5], [text |-> << "1", "2" >>, n |-> 12],
    [text |-> << "9", "9", "9" >>, n |-> 999], [text |-> << "1", "0", "0", "0" >>, n |-> 1000],
    [text |-> << "1", ",", "0", "0", "0" >>, n |-> 1000], [text |-> << "1", "1", "9", "0" >>, n |-> 1190],
    [text |-> << "1", ",", "1", "9", "0" >>, n |-> 1190], [text |-> << "9", "9", "9", "9" >>, n |-> 9999],
    [text |-> << "9", ",", "9", "9", "9" >>, n |-> 9999], [text |-> << "1", "0", "0", "0", "0" >>, n |-> 10000],
    [text |-> << "1", "0", ",", "0", "0", "0" >>, n |-> 10000] }

WrittenCents ==
  { [text |-> << "0", "0" >>, n |-> 0], [text |-> << "0", "1" >>, n |-> 1], [text |-> << "2", "5" >>, n |-> 25],
    [text |-> << "9", "9" >>, n |-> 99] }

\* The amounts a with 0 < a <= 10000 written with two decimals: the text and
\* the value in thousandths.
WrittenAmounts ==
  { [text |-> d.text \o << "." >> \o c.text, value |-> d.n * 1000 + c.n * 10] :
      d \in WrittenDollars, c \in WrittenCents }

TotalLine(a) == Line(<< "T", "o", "t", "a", "l" >>, << ":", " " >>, << "$" >> \o a.text)

\* Texts with one explicit line "Total: $a", alone or below an item line.
TotalTexts ==
  { << TotalLine(a) >> : a \in {w \in WrittenAmounts : w.value > 0 /\ w.value <= 10000 * 1000} }
    \cup { << Line(<< "M", "I", "L", "K" >>, << " " >>, << "3", ".", "5", "0" >>), TotalLine(a) >> :
             a \in {w \in WrittenAmounts : w.value > 0 /\ w.value <= 10000 * 1000} }

\* Lines that carry no explicit total: items with a price, a line that
\* names a balance, a line that names a total before other words, a
\* boilerplate line, a price out of range, an item without a dollar sign.
PriceLines ==
  { Line(<< "C", "o", "f", "f", "e", "e" >>, << " " >>, << "$", "4", ".", "2", "5" >>),
    Line(<< "L", "a", "m", "p" >>, << " " >>, << "$", "5", "0", ".", "0", "0" >>),
    Line(<< "B", "a", "l", "a", "n", "c", "e" >>, << ":", " " >>, << "$", "3", ".", "0", "0" >>),
    Line(<< "T", "o", "t", "a", "l", " ", "s", "a", "v", "i", "n", "g", "s", " ", "t", "o", "d", "a", "y" >>, << " " >>, << "$", "2", ".", "0", "0" >>),
    Line(<< "T", "h", "a", "n", "k", " ", "y", "o", "u" >>, << " " >>, << "$", "9", "9", ".", "0", "0" >>),
    Line(<< "T", "V" >>, << " " >>, << "$", "1", "0", ",", "5", "0", "0", ".", "0", "0" >>),
    Line(<< "M", "I", "L", "K" >>, << " " >>, << "3", ".", "5", "0" >>) }

MaxPriceLines == 2

PriceTexts == UNION { [1..n -> PriceLines] : n \in 0..MaxPriceLines }

InitExtract ==
  /\ mode = "extract"
  /\ tzEast = FALSE
  /\ receipts = [j \in Jobs |-> NoRow]
  /\ expenses = {}
  /\ categories = defaultCategories
  /\ isAvailable = FALSE
  /\ job = [j \in Jobs |-> IdleJob]
  /\ vData \in TotalTexts \cup PriceTexts
  /\ vOnce = Unset
  /\ vCount = 0

Extract ==
  /\ mode = "extract"
  /\ vCount = 0
  /\ vOnce' = [server |-> extractReceiptData(vData),
               simple |-> trySimpleExtractionIn(vData, tzEast)]
  /\ vCount' = 1
  /\ UNCHANGED << mode, tzEast, receipts, expenses, categories, isAvailable, job, vData >>

SpecExtract == InitExtract /\ [][Extract]_vars

\* The amount a of the explicit line "Total: $a" that ends a text, in
\* thousandths; 0 when the text does not end with such a line.
WrittenTotal(text) ==
  LET Of(found) == IF found = {} THEN 0 ELSE (CHOOSE a \in found : TRUE).value
  IN IF text = <<>> THEN 0
     ELSE Of({a \in WrittenAmounts : text[Len(text)] = TotalLine(a)})

\* C11: for every amount a with 0 < a <= 10000 written with two decimals,
\* with or without thousands separators, a text with the explicit line
\* "Total: $a" gives amount = a in both heuristic strategies.
C11_ExplicitTotalIsReturned ==
  ( mode = "extract" /\ vCount = 1 /\ WrittenTotal(vData) > 0 )
    => /\ vOnce.server.amount = JNum(WrittenTotal(vData))
       /\ vOnce.simple.amount = JNum(WrittenTotal(vData))

\* The prices of a text that count: those behind a dollar sign on a line
\* that is not boilerplate, above 0 and under 10000; as pairs of line number
\* and thousandths.
DetectedPrices(text) ==
  LET Counts(v) == v > 0 /\ v < 10000 * 1000
      Priced(capture) == capture # <<>> /\ Counts(AmountOf(capture))
  IN { << i, AmountOf(MoneyMatch(text[i])) >> :
         i \in { k \in DOMAIN text :
                   ~IsSkippedLine(text[k]) /\ Priced(MoneyMatch(text[k])) } }

\* The largest value of a set of prices, as an amount; absent for no price.
LargestOf(prices) ==
  IF prices = {} THEN JNull
  ELSE JNum((CHOOSE p \in prices : \A q \in prices : q[2] <= p[2])[2])

\* The prices on a line that contains "total", "amount due" or "balance".
OnKeywordLine(text, prices) ==
  { p \in prices :
      \/ Includes(cleanLineOf(text[p[1]]), << "t", "o", "t", "a", "l" >>)
      \/ Includes(cleanLineOf(text[p[1]]), << "a", "m", "o", "u", "n", "t", " ", "d", "u", "e" >>)
      \/ Includes(cleanLineOf(text[p[1]]), << "b", "a", "l", "a", "n", "c", "e" >>) }

NoExplicitTotal(text) == \A i \in DOMAIN text : TotalMatch(text[i]) = <<>>

\* C12 as stated: when no line matches the explicit total pattern,
\* extractReceiptData returns the largest money amount detected on the
\* lines that are not boilerplate, and no amount when none is detected.
C12_LargestAmount ==
  ( mode = "extract" /\ vCount = 1 /\ NoExplicitTotal(vData) )
    => vOnce.server.amount = LargestOf(DetectedPrices(vData))

\* C12, amended: when no line matches the explicit total pattern,
\* extractReceiptData returns the largest amount among the lines that
\* contain "total", "amount due" or "balance" when there is one, else the
\* largest detected amount, and no amount when none is detected.
C12_KeywordLinesFirst ==
  ( mode = "extract" /\ vCount = 1 /\ NoExplicitTotal(vData) )
    => LET Chosen(prices, likely) ==
             vOnce.server.amount = LargestOf(IF likely # {} THEN likely ELSE prices)
           Among(prices) == Chosen(prices, OnKeywordLine(vData, prices))
       IN Among(DetectedPrices(vData))

\* A text of two priced lines without an explicit total, the smaller price
\* on a line that names a balance: that price is returned.
C12_Witness ==
  /\ mode = "extract"
  /\ vCount = 1
  /\ vData = << Line(<< "L", "a", "m", "p" >>, << " " >>, << "$", "5", "0", ".", "0", "0" >>), Line(<< "B", "a", "l", "a", "n", "c", "e" >>, << ":", " " >>, << "$", "3", ".", "0", "0" >>) >>
  /\ vOnce.server.amount = JNum(3000)

(***************************************************************************)
(* validateOCRQuality on its own, applied to a text.  vData is the text,   *)
(* vOnce the score, vCount the number of applications.                     *)
(***************************************************************************)
\* The length of the long texts.
QualityLength == 500

QualityLengths == {1, 19, 20, 21, 60, QualityLength - 1, QualityLength}

\* The first n characters of seed written over and over.
Repeat(seed, n) == [i \in 1..n |-> seed[((i - 1) % Len(seed)) + 1]]

AlnumSeeds ==
  { << "a" >>, << "Z", "9" >>, << "a", "b", "c", "1", "2", "3" >>, << "0", "1", "2", "3", "4", "5", "6", "7", "8", "9" >>, << "Q", "x", "7" >>, << "R", "E", "C", "E", "I", "P", "T" >>, << "k", "2", "M", "8" >>,
    << "T", "h", "e", "Q", "u", "i", "c", "k", "B", "r", "o", "w", "n", "F", "o", "x", "4", "2" >> }

\* Seeds with characters outside the valid-word pattern, and with spaces.
OtherSeeds ==
  { << "#", "%", "&" >>, << "a", "#", "b", "%" >>, << "W", "a", "l", "m", "a", "r", "t", "-", "S", "u", "p", "e", "r", "c", "e", "n", "t", "e", "r", " " >>, << "#", "r", "e", "c", "e", "i", "p", "t", "%", "l", "i", "n", "e", "#", "t", "o", "t", "a", "l", " " >> }

\* One-line texts: the seed repeated up to a length.
QualityTexts ==
  { << Line(Repeat(seed, n), <<>>, <<>>) >> :
      seed \in AlnumSeeds \cup OtherSeeds, n \in QualityLengths }

InitQuality ==
  /\ mode = "quality"
  /\ tzEast = FALSE
  /\ receipts = [j \in Jobs |-> NoRow]
  /\ expenses = {}
  /\ categories = defaultCategories
  /\ isAvailable = FALSE
  /\ job = [j \in Jobs |-> IdleJob]
  /\ vData \in QualityTexts
  /\ vOnce = Unset
  /\ vCount = 0

Quality ==
  /\ mode = "quality"
  /\ vCount = 0
  /\ vOnce' = [score |-> validateOCRQuality(vData)]
  /\ vCount' = 1
  /\ UNCHANGED << mode, tzEast, receipts, expenses, categories, isAvailable, job, vData >>

SpecQuality == InitQuality /\ [][Quality]_vars

\* A text of one line of n letters and digits, without whitespace.
IsAlnumText(text, n) ==
  /\ Len(text) = 1
  /\ Len(LineText(text[1])) = n
  /\ \A k \in 1..n : IsDigit(LineText(text[1])[k]) \/ IsLetter(LineText(text[1])[k])

\* C13 as stated: validateOCRQuality returns a score below 5 for every text
\* of 500 alphanumeric characters without whitespace.
C13_LongAlnumScoresBelowFive ==
  ( mode = "quality" /\ vCount = 1 /\ IsAlnumText(vData, QualityLength) )
    => vOnce.score < 5

\* C13, amended: validateOCRQuality returns the score 9 for every text of
\* 500 alphanumeric characters without whitespace: the text is one valid
\* word, and only the rule of fewer than three lines takes a point.
C13_LongAlnumScoresNine ==
  ( mode = "quality" /\ vCount = 1 /\ IsAlnumText(vData, QualityLength) )
    => vOnce.score = 9

\* A scored text of 500 alphanumeric characters without whitespace.
C13_Witness ==
  /\ mode = "quality"
  /\ vCount = 1
  /\ IsAlnumText(vData, QualityLength)
  /\ vOnce.score = 9

\* Job j is over, and it was a PDF without a text layer of which the first
\* page gave no text and a later page was there to read.  Electron keeps no
\* page count: the recognition of page 1 threw, and the job went on to the
\* health check.  The server counted two pages, went through both and kept
\* text of the second only.
PageOneFailed(j) ==
  /\ job[j].pc = "done"
  /\ job[j].ftype = "pdf"
  /\ job[j].threw = {}
  /\ IF mode = "electron"
       THEN /\ job[j].ocrCalls = 1
            /\ job[j].ocrText = << Chunk(0, "pdffailed") >>
            /\ job[j].health # "none"
       ELSE /\ job[j].numpages = 2
            /\ job[j].page = 2
            /\ job[j].ocrText # <<>>
            /\ \A k \in DOMAIN job[j].ocrText : job[j].ocrText[k].page # 1

\* C14: a PDF without a text layer whose page 1 fails to rasterize or to
\* OCR and whose page 2 is readable ends 'completed', its raw text the text
\* of page 2 only, in both pipelines.
C14_FailedPageIsSkipped ==
  \A j \in Jobs :
    PageOneFailed(j)
      => /\ receipts[j].status = "completed"
         /\ \E key \in PageTexts, page \in {0, 2} :
              TextOf(key) # <<>> /\ receipts[j].ocr_text = << Chunk(page, key) >>

\* Job j is over, and it was a PDF without a usable text layer of which no
\* page gave text: the pages went to the OCR engine, and what the job holds
\* as raw text is nothing, blank, or the text processPDF makes up.
NoPageText(j) ==
  /\ job[j].pc = "done"
  /\ job[j].ftype = "pdf"
  /\ job[j].threw = {}
  /\ job[j].ocrCalls >= 1
  /\ \A k \in DOMAIN job[j].ocrText :
       job[j].ocrText[k].key = "pdffailed" \/ TextOf(job[j].ocrText[k].key) = <<>>

\* C15: a PDF with no usable text layer and no page that yields text makes
\* processPDF raise an error and the job end 'failed'; no empty or made-up
\* text is stored as the text of a successful job.
C15_NoTextFailsJob ==
  \A j \in Jobs :
    NoPageText(j) => receipts[j].status = "failed" /\ receipts[j].ocr_text = <<>>

(***************************************************************************)
(* getOrCreateCategory on its own, called again and again on one database. *)
(* vOnce is the pipeline, vData the calls so far: the vendor, the id       *)
(* returned (0 when the insert threw) and the number of rows after the     *)
(* call.                                                                   *)
(***************************************************************************)
MaxCalls == 2

CategoryVendors ==
  { <<>>, << "W", "a", "l", "m", "a", "r", "t" >>, << "w", "a", "l", "m", "a", "r", "t" >>, << "T", "a", "r", "g", "e", "t" >>, << "C", "o", "r", "n", "e", "r", " ", "C", "a", "f", "e" >>, << "c", "o", "r", "n", "e", "r", " ", "c", "a", "f", "e" >>,
    << "U", "n", "k", "n", "o", "w", "n" >> }

InitCategory ==
  /\ mode = "category"
  /\ tzEast = FALSE
  /\ receipts = [j \in Jobs |-> NoRow]
  /\ expenses = {}
  /\ categories = defaultCategories
  /\ isAvailable = FALSE
  /\ job = [j \in Jobs |-> IdleJob]
  /\ vData = <<>>
  /\ vOnce \in {"electron", "server"}
  /\ vCount = 0

\* getOrCreateCategory(vendorName): the SELECT by name, and the INSERT when
\* there is no row; both run without an await in between.
getOrCreateCategory ==
  /\ mode = "category"
  /\ vCount < MaxCalls
  /\ \E vendorName \in CategoryVendors, insOk \in BOOLEAN :
       LET Called(id, rows) ==
             /\ categories' = rows
             /\ vData' = Append(vData, [vendor |-> vendorName, id |-> id, rows |-> Len(rows)])
           Resolve(name) ==
             IF HasCategory(name) THEN Called(CategoryId(name), categories)
             ELSE IF insOk THEN Called(Len(categories) + 1, Append(categories, name))
             ELSE Called(0, categories)
       IN Resolve(IF vOnce = "electron" THEN electronCategoryName(vendorName)
                  ELSE intelligentVendorToCategory(vendorName))
  /\ vCount' = vCount + 1
  /\ UNCHANGED << mode, tzEast, receipts, expenses, isAvailable, job, vOnce >>

SpecCategory == InitCategory /\ [][getOrCreateCategory]_vars

\* C16: two calls of getOrCreateCategory with the same vendor that return
\* give the same id, the later one inserts no row, and no two category rows
\* ever have the same name.
C16_CategoryResolvedOnce ==
  mode = "category"
    => /\ \A a, b \in DOMAIN vData :
            ( a < b /\ vData[a].vendor = vData[b].vendor /\ vData[a].id # 0 )
              => /\ vData[b].id = vData[a].id
                 /\ vData[b].rows = vData[b - 1].rows
       /\ \A x, y \in DOMAIN categories : categories[x] = categories[y] => x = y

\* Two calls with the same vendor: the first inserted a row, the second
\* returned the id of that row.
C16_Witness ==
  /\ mode = "category"
  /\ Len(vData) = 2
  /\ vData[1].vendor = vData[2].vendor
  /\ vData[1].id = Len(defaultCategories) + 1
  /\ vData[2].id = vData[1].id
  /\ Len(categories) = Len(defaultCategories) + 1

TwoJobs == {1, 2}

AtHealth(key) ==
  [IdleJob EXCEPT !.pc = "health", !.ftype = "image", !.processedPath = "advanced",
                  !.ocrText = << Chunk(0, key) >>, !.ocrCalls = 1]

InitShared ==
  /\ mode = "electron"
  /\ tzEast = FALSE
  /\ receipts = [j \in TwoJobs |-> WriteStatus(InsertRow("processing"), "processing")]
  /\ expenses = {}
  /\ categories = defaultCategories
  /\ isAvailable = FALSE
  /\ job = [j \in TwoJobs |-> AtHealth(IF j = 1 THEN "walmart" ELSE "cafe")]
  /\ vData = Unset
  /\ vOnce = Unset
  /\ vCount = 0

NextShared ==
  \E j \in TwoJobs :
    \/ E_Health(j)
    \/ E_AfterHealth(j)
    \/ E_LLM(j)
    \/ E_InsertExpense(j)
    \/ E_ExpenseReturn(j)
    \/ E_Return(j)

SpecShared == InitShared /\ [][NextShared]_vars

\* C18: the extraction strategy of a job follows from its own health probe
\* only: a job whose probe succeeded performs the delegated call, whatever
\* the probe of another job met in between.
C18_OwnProbeDecides ==
  \A j \in DOMAIN job :
    ( job[j].health = "ok" /\ job[j].pc \notin {"health", "posthealth"} )
      => job[j].fetched

\* Job j is over, no write of it threw, and its extracted data hold an
\* amount.
HasAmount(j) ==
  /\ job[j].pc = "done"
  /\ job[j].threw = {}
  /\ job[j].extractedData.amount.t = "num"

\* C19: whenever the amount is present an expense is created, storage
\* succeeding, even without vendor and date: its amount is that amount; for
\* an absent vendor its description is "Receipt purchase" and its vendor
\* "Unknown"; for an absent date its date is the current date.
C19_AmountAloneMakesExpense ==
  \A j \in Jobs :
    HasAmount(j)
      => \E e \in expenses :
           /\ e.receipt_id = j
           /\ e.amount = job[j].extractedData.amount.v
           /\ ~Truthy(job[j].extractedData.vendor)
                => e.description = << "R", "e", "c", "e", "i", "p", "t", " ", "p", "u", "r", "c", "h", "a", "s", "e" >> /\ e.vendor = << "U", "n", "k", "n", "o", "w", "n" >>
           /\ ~Truthy(job[j].extractedData.date) => e.date = Today

\* C20: every expense row that a step of a job inserts carries exactly the
\* tags "receipt-import", "auto-created" and the id of that job as its
\* receipt_id; a row that a manual create-expense call inserts carries no
\* receipt_id.
C20_RowsCarryTagsAndJob ==
  [][\A e \in {x \in expenses' : \A y \in expenses : y.id # x.id} :
       IF job' # job
         THEN /\ e.tags = << "receipt-import", "auto-created" >>
              /\ \E j \in DOMAIN job : job'[j] # job[j] /\ e.receipt_id = j
         ELSE e.receipt_id = 0]_vars

\* A row of a job next to a row of a manual call.
C20_Witness ==
  \E e, m \in expenses :
    /\ e.receipt_id \in Jobs
    /\ job[e.receipt_id].expense
    /\ e.tags = << "receipt-import", "auto-created" >>
    /\ m.receipt_id = 0
    /\ m.id \notin Jobs

\* C21: a file of unsupported type or above the size limit is rejected
\* before the pipeline starts: no receipt row is created and no pipeline
\* stage runs for it, in the server's upload endpoint and in Electron's
\* process-receipt entry point.
C21_RefusedBeforePipeline ==
  \A j \in Jobs :
    job[j].ftype \in {"big", "other"}
      => /\ receipts[j] = NoRow
         /\ job[j].pc = "done"
         /\ job[j].processedPath = "unset"
         /\ job[j].ocrCalls = 0

\* C22: when the delegated strategy returns an object, vendor, date and
\* amount of the pre-validation result are the values of that object, a
\* null staying null; trySimpleExtraction gives no field.
C22_DelegatedFieldsOnly ==
  \A j \in Jobs :
    job[j].llmOut.k = "text"
      => LET Taken(llmData) ==
               llmData.some
                 => /\ job[j].pre.vendor = llmData.vendor
                    /\ job[j].pre.date = llmData.date
                    /\ job[j].pre.amount = llmData.amount
         IN Taken(llmResult(job[j].llmOut))

\* The collaborator returned an object without vendor for a text in which
\* the heuristic finds one: the vendor stays null.
C22_Witness ==
  \E j \in Jobs :
    /\ job[j].llmOut.k = "text"
    /\ llmResult(job[j].llmOut).some
    /\ job[j].pre.vendor = JNull
    /\ job[j].pre.date # JNull
    /\ trySimpleExtraction(LinesOf(job[j].ocrText)).vendor # JNull

\* C23: after validateAndCleanExtractedData a vendor that is there is never
\* "null", "unknown", "order details", "ship to", "bill to", "invoice",
\* "receipt", "thank you", "customer copy" or "page N" in any case, and
\* never shorter than 2 characters.
C23_NoPlaceholderVendor ==
  ( mode = "validate" /\ vCount >= 1 /\ Truthy(vData.vendor) /\ vData.vendor.t = "str" )
    => /\ Len(vData.vendor.s) >= 2
       /\ ToLower(vData.vendor.s) \notin {StrNull, StrUnknown}
       /\ ~isInvalidVendor(vData.vendor.s)

\* The quality score of the text of an image.
ScoreOf(key) == validateOCRQuality(TextOf(key))

\* C24: for an image job whose text has reached field extraction, OCR was
\* run again in sparse-text mode exactly when the first text scores under
\* 5, and at most once; the text extracted from is the one of the two with
\* the higher score, the first one when the scores are equal.
C24_RetryOnLowQuality ==
  \A j \in Jobs :
    ( job[j].ftype = "image" /\ job[j].extractedData # Unset )
      => LET Kept(first, retries) ==
               /\ Len(retries) <= 1
               /\ (Len(retries) = 1) <=> (ScoreOf(first) < QualityMin)
               /\ job[j].ocrText =
                    << Chunk(0, IF retries # <<>> /\ ScoreOf(retries[1]) > ScoreOf(first)
                                  THEN retries[1] ELSE first) >>
         IN Kept(IF job[j].firstText = "none" THEN job[j].ocrText[1].key
                 ELSE job[j].firstText, job[j].retries)

\* A step of job j in which the OCR engine is called and gives no text.
EngineCallFails(j) ==
  /\ job[j].pc \in {"ocr", "ocrbasic"}
  /\ job'[j].ocrCalls = job[j].ocrCalls + 1
  /\ job'[j].ocrText = job[j].ocrText
  /\ job'[j].retries = job[j].retries
  /\ job'[j].extractedData = Unset

\* C25: when the call of the OCR engine fails the adapter calls it once
\* more with the default configuration, and the error reaches the job only
\* when that call fails too.
C25_EngineRetriedOnce ==
  [][\A j \in Jobs :
       EngineCallFails(j)
         => IF job[j].pc = "ocr" THEN job'[j].pc = "ocrbasic"
            ELSE job'[j].pc \in {"done", "route"}]_vars

\* C26: an image that the advanced pipeline or, after its failure, the
\* simplified pipeline has preprocessed goes on to OCR: the failure of the
\* advanced pipeline alone never ends the job, the job ends in
\* preprocessImage only when the simplified pipeline fails as well.
C26_FallbackKeepsJobAlive ==
  \A j \in Jobs :
    ( job[j].ftype = "image" /\ job[j].processedPath \in {"advanced", "fallback"} )
      => job[j].pc = "ocr" \/ job[j].ocrCalls >= 1

\* A job whose image went through the simplified pipeline and that completed.
C26_Witness ==
  \E j \in Jobs :
    /\ job[j].ftype = "image"
    /\ job[j].processedPath = "fallback"
    /\ job[j].ocrCalls >= 1
    /\ receipts[j].status = "completed"

\* C27: when processPDF of the server has returned the text of the rendered
\* pages of a PDF, the path it returned is the image of the lowest page
\* that convert has rendered: the image of page 1 when that page was
\* rendered, else the image of a later page, not the PDF itself.
C27_LowestRenderedPage ==
  \A j \in Jobs :
    ( mode = "server" /\ job[j].rendered # {} /\ job[j].extractedData # Unset )
      => LET Lowest(n) ==
               IF n = 1 THEN job[j].processedPath = "page1"
               ELSE job[j].processedPath \notin {"unset", "pdf", "page1"}
         IN Lowest(CHOOSE n \in job[j].rendered : \A m \in job[j].rendered : n <= m)

\* The three result columns of a receipt row.
ResultColumns(row) == << row.ocr_text, row.extracted_data, row.processed_path >>

\* C28: the columns ocr_text, extracted_data and processed_path of a
\* receipt row are unset while the status is 'pending' or 'processing' and
\* in every row of status 'failed'; the update that sets 'completed' writes
\* them, and no later step changes them.
C28_ResultWrittenOnce ==
  [][\A j \in Jobs :
       /\ receipts'[j].status \in {"pending", "processing", "failed"}
            => ResultColumns(receipts'[j]) = ResultColumns(NoRow)
       /\ receipts'[j].status = "completed"
            => /\ receipts'[j].extracted_data # Unset
               /\ receipts'[j].processed_path # "unset"
       /\ ResultColumns(receipts'[j]) # ResultColumns(receipts[j])
            => /\ ResultColumns(receipts[j]) = ResultColumns(NoRow)
               /\ receipts[j].status # "completed"
               /\ receipts'[j].status = "completed"]_vars

\* A job that has ended behind the update to 'completed': the row holds the
\* text, the fields and the path of the job.
C28_Witness ==
  \E j \in Jobs :
    /\ job[j].pc = "done"
    /\ receipts[j].status = "completed"
    /\ receipts[j].ocr_text = job[j].ocrText
    /\ receipts[j].ocr_text # << >>
    /\ receipts[j].extracted_data = job[j].extractedData
    /\ receipts[j].processed_path = job[j].processedPath

\* C29: when processReceiptFile has returned, its result agrees with the
\* stored job: success is true exactly when the row is 'completed', false
\* exactly when the row is 'failed' or was not created, and the expense it
\* returns is not null exactly when an expense row of the receipt exists.
C29_ResultAgreesWithRow ==
  \A j \in Jobs :
    ( mode = "electron" /\ job[j].pc = "done" )
      => /\ (job[j].result = "success") <=> (receipts[j].status = "completed")
         /\ (job[j].result = "failure") <=> (receipts[j].status \in {"failed", "none"})
         /\ job[j].expense <=> (\E e \in expenses : e.receipt_id = j)

====
